---- MODULE Spec2Model ----
(***************************************************************************)
(* The secure synchronized channel of the PC server: WebSocketServer       *)
(* (pc-server/src/websocket_server.py) with its per-connection handshake,  *)
(* message dispatch, broadcast and the two health monitors.                *)
(*                                                                         *)
(* Every coroutine runs on one asyncio event loop: a step of the model is  *)
(* the code a task runs between two suspension points.  A transport write  *)
(* succeeds exactly when the socket is still open; a peer that goes away   *)
(* closes the socket first and the connection's handler notices later.     *)
(***************************************************************************)
EXTENDS Integers, Sequences, FiniteSets, TLC

\* ----------------------------------------------------------------- bounds
\* sockets the listener accepts during a run
NumConns == 2
\* the clock stops here
MaxTime == 150
\* the clock moves in steps of this many seconds
TimeStep == 30
\* cap of the message and error counters
MaxCount == 2

\* ------------------------------------------------------ program constants
PONG_TIMEOUT == 90
INACTIVITY_TIMEOUT == 120
KEY_EXCHANGE_TIMEOUT == 10
AES_KEY_SIZE == 32
AES_IV_SIZE == 12

Conns == 1..NumConns
Contents == {"a", "b"}

\* A symmetric key: who chose it and how many bytes it has.  id 0 is the
\* pre-shared key, id c the key the peer of socket c generated.
Key(i, n) == [id |-> i, len |-> n]
None == Key(-1, 0)
PSK == Key(0, AES_KEY_SIZE)

VARIABLES
    pre_shared_key,    \* constructor argument: None or a 32-byte key
    on_clipboard_received, \* constructor argument: TRUE when a callback is given
    running,           \* self._running
    now,               \* time.time(), seconds
    connections,       \* keys of self.connections (the live set)
    connection_state,  \* the state dict of each socket (outlives its removal)
    handler,           \* where handle_client(c) is suspended
    sock,              \* transport of each socket: "open" or "closed"
    stats,             \* self._stats
    ping_task,         \* where _ping_connections is suspended, its dead list
    health_check_task, \* where _health_check is suspended
    loop_calls,        \* coroutines handed to the event loop from another thread:
                       \* those not yet run, how many were handed over and run
    clipboard_monitor, \* the system clipboard, the ClipboardMonitor's fields and
                       \* thread, the calls waiting for the executor
    ev                 \* what the last step did: input, writes, log, result

vars == <<pre_shared_key, on_clipboard_received, running, now, connections, connection_state,
          handler, sock, stats, ping_task, health_check_task, loop_calls,
          clipboard_monitor, ev>>

\* ----------------------------------------------------------------- frames
\* An inbound text frame, by the properties the code inspects:
\*   pipe    the text contains '|'
\*   json    json.loads gives an "object", "other" JSON value, or is "invalid"
\*   type    value of the object's "type" member ("none": no such member)
\*   stats   the object's "stats" member: "absent", an "object", or an
\*           "other" non-empty value (a string, a number, a list)
\*   ek      the "encrypted_key" member: "absent", "empty", "badb64" (not
\*           Base64), "badrsa" (OAEP decryption fails) or "key"
\*   key     the key that RSA-OAEP recovers / that sealed the frame
\*   iv      bytes the part before the first '|' decodes to (-1: not Base64,
\*           0: empty part)
\*   sealed  bytes the part after the first '|' decodes to (same coding)
\*   plain   what the GCM plaintext is: "envelope", "notjson", "nofield"
\*   content the envelope's content
NoFrame ==
    [pipe |-> FALSE, json |-> "invalid", type |-> "none", stats |-> "absent",
     ek |-> "absent",
     key |-> None, iv |-> 0, sealed |-> 0, plain |-> "notjson", content |-> "a"]

KeyExchangeFrame(ek, k) ==
    [NoFrame EXCEPT !.json = "object", !.type = "key_exchange", !.ek = ek, !.key = k]

ControlFrame(t) ==
    [NoFrame EXCEPT !.json = "object", !.type = t]

EncryptedFrame(k, iv, sealed, plain, content) ==
    [NoFrame EXCEPT !.pipe = TRUE, !.key = k, !.iv = iv, !.sealed = sealed,
                    !.plain = plain, !.content = content]

\* first frames a peer may send during the handshake
HandshakeFrames(c) ==
    {KeyExchangeFrame("key", Key(c, n)) : n \in {16, 31, 32, 33}}
    \cup {KeyExchangeFrame(e, None) : e \in {"absent", "empty", "badb64", "badrsa"}}
    \cup {[NoFrame EXCEPT !.json = "invalid"],
          [NoFrame EXCEPT !.json = "other"],
          ControlFrame("none"),
          ControlFrame("connection_status")}

\* frames a peer may send once the handshake is over
MessageFrames(c) ==
    {EncryptedFrame(Key(c, AES_KEY_SIZE), AES_IV_SIZE, 40, "envelope", x) : x \in Contents}
    \cup {EncryptedFrame(Key(c, AES_KEY_SIZE), AES_IV_SIZE, 40, p, "a") : p \in {"notjson", "nofield"}}
    \cup {EncryptedFrame(PSK, AES_IV_SIZE, 40, "envelope", "a"),
          EncryptedFrame(Key(c, AES_KEY_SIZE), 8, 40, "envelope", "a"),
          EncryptedFrame(Key(c, AES_KEY_SIZE), AES_IV_SIZE, 8, "envelope", "a"),
          EncryptedFrame(Key(c, AES_KEY_SIZE), -1, 40, "envelope", "a"),
          EncryptedFrame(Key(c, AES_KEY_SIZE), AES_IV_SIZE, 0, "envelope", "a"),
          [EncryptedFrame(Key(c, AES_KEY_SIZE), AES_IV_SIZE, 40, "envelope", "a")
              EXCEPT !.json = "object", !.type = "connection_status"],
          ControlFrame("connection_status"),
          [ControlFrame("connection_status") EXCEPT !.stats = "object"],
          [ControlFrame("connection_status") EXCEPT !.stats = "other"],
          [ControlFrame("error_report") EXCEPT !.stats = "other"],
          KeyExchangeFrame("key", Key(c, AES_KEY_SIZE)),
          ControlFrame("error_report"),
          ControlFrame("clipboard_sync_result"),
          ControlFrame("bogus"),
          ControlFrame("none"),
          [NoFrame EXCEPT !.json = "other"],
          [NoFrame EXCEPT !.json = "invalid"]}

\* what ClipboardWriter.write_text may return for the frame's content (it
\* is only called for a frame that carries an envelope)
WriteOutcomes(f) == IF f.pipe /\ f.plain = "envelope" THEN BOOLEAN ELSE {TRUE}

\* whether the received-callback raises for the frame's content (it is only
\* called, if one was given, for a frame that carries an envelope)
CallbackOutcomes(f) ==
    IF f.pipe /\ f.plain = "envelope" /\ on_clipboard_received THEN BOOLEAN ELSE {FALSE}

\* --------------------------------------------------------- step record
\* A transport write: the socket, the kind of frame, whether it went out.
Write(c, kind, detail) ==
    [to |-> c, kind |-> kind, detail |-> detail, ok |-> sock[c] = "open"]

\* A logger call: its level, what it reports, the socket it is about.
Log(level, msg, c) == [level |-> level, msg |-> msg, conn |-> c]

\* A call out of the server, on the executor: the function, its argument
\* and how it ended (write_text: the value returned; the callback: TRUE
\* when it returned, FALSE when it raised).
Call(fn, arg, ok) == [fn |-> fn, arg |-> arg, ok |-> ok]

Event(op, c, f, io, log, ret) ==
    [op |-> op, conn |-> c, frame |-> f, io |-> io, log |-> log, ret |-> ret,
     calls |-> <<>>, raised |-> FALSE]

\* ------------------------------------------------------------ construction
\* manager: which EncryptionManager object "encryption" refers to (0: none)
NewState(t) ==
    [encryption |-> None, manager |-> 0, key_exchanged |-> FALSE,
     last_activity |-> t, last_pong |-> t, connection_healthy |-> TRUE,
     connected_at |-> t, messages_sent |-> 0, messages_received |-> 0]

\* The system clipboard (empty, its text tagged with where it came from:
\* "local" for a copy made on this machine, "peer" for a received content)
\* and ClipboardMonitor(on_change): _last_content is None ("None"),
\* _last_hash is None (<<>>), the thread is about to poll, the executor has
\* nothing to run.
ClipboardMonitor ==
    [os |-> [text |-> "", origin |-> "local"],
     last_content |-> "None", last_hash |-> <<>>,
     pc |-> "poll", current |-> [text |-> "", origin |-> "local"],
     jobs |-> <<>>]

\* WebSocketServer(..., on_clipboard_received=cb, pre_shared_key=...)
Construct(cb) ==
    /\ pre_shared_key \in {None, PSK}
    /\ on_clipboard_received = cb
    /\ running = FALSE
    /\ now = 0
    /\ connections = {}
    /\ connection_state = [c \in Conns |-> NewState(0)]
    /\ handler = [c \in Conns |-> "idle"]
    /\ sock = [c \in Conns |-> "closed"]
    /\ stats = [total_connections |-> 0, active_connections |-> 0,
                messages_sent |-> 0, messages_received |-> 0, errors |-> 0]
    /\ ping_task = [pc |-> "new", dead |-> <<>>]
    /\ health_check_task = [pc |-> "new"]
    /\ loop_calls = [queue |-> <<>>, handed |-> 0, done |-> 0]
    /\ clipboard_monitor = ClipboardMonitor
    /\ ev = Event("init", 0, NoFrame, <<>>, <<>>, 0)

Init == \E cb \in BOOLEAN : Construct(cb)

\* the server constructed with a pre-shared key and a clipboard callback
ConstructPreShared == Construct(TRUE) /\ pre_shared_key = PSK

\* start(): the monitors are created and the listener serves.
Start ==
    /\ ~running
    /\ ping_task.pc = "new"
    /\ running' = TRUE
    /\ ping_task' = [pc |-> "sleep", dead |-> <<>>]
    /\ health_check_task' = [pc |-> "sleep"]
    /\ ev' = Event("start", 0, NoFrame, <<>>, <<>>, 0)
    /\ UNCHANGED <<clipboard_monitor, loop_calls, pre_shared_key, on_clipboard_received, now, connections, connection_state, handler,
                   sock, stats>>

\* Time passes.  A timer of the event loop that is due (the handshake's
\* wait_for) fires before more time passes, and a task suspended in a write
\* or in a close resumes within the clock's step.
Advance(limit) ==
    /\ running
    /\ now + TimeStep <= limit
    /\ \A c \in Conns : handler[c] = "handshake" =>
          now - connection_state[c].connected_at < KEY_EXCHANGE_TIMEOUT
    /\ \A c \in Conns : handler[c] # "ack"
    /\ ping_task.pc \notin {"pinging", "closing"}
    /\ now' = now + TimeStep
    /\ ev' = Event("advance", 0, NoFrame, <<>>, <<>>, 0)
    /\ UNCHANGED <<clipboard_monitor, loop_calls, health_check_task, pre_shared_key, on_clipboard_received, running, connections, connection_state,
                   handler, sock, stats, ping_task>>

\* ------------------------------------------------------------ small helpers
Min(S) == CHOOSE x \in S : \A y \in S : x <= y

\* a test that takes every key for absent
TruthyNever(k) == FALSE

\* `if self.pre_shared_key:` / `if key:` -- a bytes value is true when non-empty
Truthy(k) == k.len > 0

\* a cipher context that ignores the key it is given
EncryptionManagerFixed(k) == PSK

\* EncryptionManager(key): holds the key it was built with
EncryptionManager(k) == IF Truthy(k) THEN k ELSE None

\* a server that builds one cipher context and gives it to every connection
NewManagerShared(c) == 1

\* The object that `encryption = EncryptionManager(...)` makes in the
\* handshake of socket c: a new one at every call, named after the socket
\* (each socket has one handshake).
NewManager(c) == c

\* a server that tells the peer its status twice
send_connection_status_twice(conns, c, status) ==
    IF c \notin conns THEN <<>>
    ELSE <<Write(c, "connection_status", status), Write(c, "connection_status", status)>>

\* send_connection_status: nothing is written for a socket not in the live set
send_connection_status(conns, c, status) ==
    IF c \notin conns THEN <<>> ELSE <<Write(c, "connection_status", status)>>

\* a server that reports no error to the peer
send_error_report_silent(conns, c, error_type) == <<>>

\* send_error_report: nothing is written for a socket not in the live set, and
\* a failing write is swallowed
send_error_report(conns, c, error_type) ==
    IF c \notin conns THEN <<>> ELSE <<Write(c, "error_report", error_type)>>

\* a handler that ends without taking its socket out of the live set
CleanupLeavesInLiveSet(c) ==
    /\ connections' = connections
    /\ stats' = stats
    /\ handler' = [handler EXCEPT ![c] = "done"]
    /\ sock' = [sock EXCEPT ![c] = "closed"]

\* a handler that takes its socket out of the live set and leaves the
\* statistics as they were
CleanupStaleStats(c) ==
    /\ connections' = connections \ {c}
    /\ stats' = stats
    /\ handler' = [handler EXCEPT ![c] = "done"]
    /\ sock' = [sock EXCEPT ![c] = "closed"]

\* the `finally` of handle_client
Cleanup(c) ==
    /\ connections' = connections \ {c}
    /\ stats' = IF c \in connections
                  THEN [stats EXCEPT !.active_connections = Cardinality(connections \ {c})]
                  ELSE stats
    /\ handler' = [handler EXCEPT ![c] = "done"]
    /\ sock' = [sock EXCEPT ![c] = "closed"]

\* ---------------------------------------------------------------- accept
\* handle_client up to its first suspension.  With a pre-shared key the
\* handshake returns at once and the status frame is written; otherwise the
\* handler waits for the peer's first frame.  until: the peers of the run
\* connect no later than this.
Accept(c, until) ==
    /\ running
    /\ now <= until
    /\ handler[c] = "idle"
    /\ c = Min({d \in Conns : handler[d] = "idle"})
    /\ sock' = [sock EXCEPT ![c] = "open"]
    /\ connections' = connections \cup {c}
    /\ stats' = [stats EXCEPT !.total_connections = @ + 1,
                              !.active_connections = Cardinality(connections \cup {c})]
    /\ IF Truthy(pre_shared_key)
         THEN /\ connection_state' = [connection_state EXCEPT ![c] =
                     [NewState(now) EXCEPT !.encryption = EncryptionManager(pre_shared_key),
                                           !.manager = NewManager(c),
                                           !.key_exchanged = TRUE]]
              /\ handler' = [handler EXCEPT ![c] = "loop"]
              /\ ev' = Event("accept", c, NoFrame,
                             <<[to |-> c, kind |-> "connection_status",
                                detail |-> "connected", ok |-> TRUE]>>, <<>>, 0)
         ELSE /\ connection_state' = [connection_state EXCEPT ![c] = NewState(now)]
              /\ handler' = [handler EXCEPT ![c] = "handshake"]
              /\ ev' = Event("accept", c, NoFrame, <<>>, <<>>, 0)
    /\ UNCHANGED <<clipboard_monitor, loop_calls, health_check_task, pre_shared_key, on_clipboard_received, running, now, ping_task>>

\* ------------------------------------------------------------- handshake
\* a handshake that accepts a recovered key of any length
KeyExchangeResultAnySize(f) ==
    CASE f.json = "invalid" -> "bad_json"
      [] f.json = "other" -> "not_object"
      [] f.type # "key_exchange" -> "wrong_type"
      [] f.ek \in {"absent", "empty"} -> "missing_key"
      [] f.ek = "badb64" -> "bad_base64"
      [] f.ek = "badrsa" -> "decrypt_failed"
      [] OTHER -> "ok"

\* What _handle_key_exchange makes of the first frame: "ok" or the failure.
KeyExchangeResult(f) ==
    CASE f.json = "invalid" -> "bad_json"
      [] f.json = "other" -> "not_object"
      [] f.type # "key_exchange" -> "wrong_type"
      [] f.ek \in {"absent", "empty"} -> "missing_key"
      [] f.ek = "badb64" -> "bad_base64"
      [] f.ek = "badrsa" -> "decrypt_failed"
      [] f.key.len # AES_KEY_SIZE -> "bad_key_size"
      [] OTHER -> "ok"

\* a handshake that sends the error ack on a timeout as well
KeyExchangeFailureAlwaysAck(c, r) == <<Write(c, "key_exchange_ack", "error")>>

\* The except clauses of _handle_key_exchange for failure r: a timeout is
\* re-raised as it is; for any other exception the error ack is attempted
\* (a failing write is swallowed) before it is re-raised.
KeyExchangeFailure(c, r) ==
    IF r = "timeout" THEN <<>> ELSE <<Write(c, "key_exchange_ack", "error")>>

\* The first frame arrives before wait_for's timer fires (the peer may have
\* gone since it sent it): key installed, the handler suspends in the
\* write of the ack.  A bad frame: the exception ends the handler.
KeyExchangeRecv(c, f) ==
    /\ handler[c] = "handshake"
    /\ now - connection_state[c].connected_at < KEY_EXCHANGE_TIMEOUT
    /\ LET r == KeyExchangeResult(f) IN
       IF r = "ok"
         THEN /\ connection_state' = [connection_state EXCEPT ![c] =
                     [@ EXCEPT !.encryption = EncryptionManager(f.key),
                               !.manager = NewManager(c),
                               !.key_exchanged = TRUE]]
              /\ handler' = [handler EXCEPT ![c] = "ack"]
              /\ ev' = Event("key_exchange", c, f, <<>>, <<>>, 0)
              /\ UNCHANGED <<connections, stats, sock>>
         ELSE /\ ev' = Event("key_exchange", c, f, KeyExchangeFailure(c, r),
                             <<Log("error", r, c)>>, 0)
              /\ Cleanup(c)
              /\ UNCHANGED connection_state
    /\ UNCHANGED <<clipboard_monitor, loop_calls, health_check_task, pre_shared_key, on_clipboard_received, running, now, ping_task>>

\* The write of {"type":"key_exchange_ack","status":"ok"} completes or
\* raises.  Done: timestamps refreshed, status frame written, message loop
\* entered.  Raised: error ack attempted, the exception ends the handler.
KeyExchangeAck(c) ==
    /\ handler[c] = "ack"
    /\ IF sock[c] = "open"
         THEN /\ connection_state' = [connection_state EXCEPT ![c] =
                     [@ EXCEPT !.last_activity = now, !.last_pong = now]]
              /\ handler' = [handler EXCEPT ![c] = "loop"]
              /\ ev' = Event("key_exchange_ack", c, NoFrame,
                             <<Write(c, "key_exchange_ack", "ok")>>
                                \o send_connection_status(connections, c, "connected"),
                             <<>>, 0)
              /\ UNCHANGED <<connections, stats, sock>>
         ELSE /\ ev' = Event("key_exchange_ack", c, NoFrame,
                             <<Write(c, "key_exchange_ack", "ok")>>
                                \o KeyExchangeFailure(c, "send_failed"),
                             <<Log("error", "send_failed", c)>>, 0)
              /\ Cleanup(c)
              /\ UNCHANGED connection_state
    /\ UNCHANGED <<clipboard_monitor, loop_calls, health_check_task, pre_shared_key, on_clipboard_received, running, now, ping_task>>

\* a handshake whose timer starts over instead of ending it
KeyExchangeTimeoutKeepsWaiting(c) ==
    /\ handler[c] = "handshake"
    /\ now - connection_state[c].connected_at >= KEY_EXCHANGE_TIMEOUT
    /\ connection_state' = [connection_state EXCEPT ![c] = [@ EXCEPT !.connected_at = now]]
    /\ ev' = Event("key_exchange_timeout", c, NoFrame, <<>>,
                   <<Log("warning", "timeout", c)>>, 0)
    /\ UNCHANGED <<clipboard_monitor, loop_calls, health_check_task, pre_shared_key, on_clipboard_received, running, now, connections,
                   handler, sock, stats, ping_task>>

\* asyncio.wait_for gives up: TimeoutError is re-raised without any write.
KeyExchangeTimeout(c) ==
    /\ handler[c] = "handshake"
    /\ now - connection_state[c].connected_at >= KEY_EXCHANGE_TIMEOUT
    /\ ev' = Event("key_exchange_timeout", c, NoFrame,
                   KeyExchangeFailure(c, "timeout"),
                   <<Log("warning", "timeout", c)>>, 0)
    /\ Cleanup(c)
    /\ UNCHANGED <<clipboard_monitor, loop_calls, health_check_task, pre_shared_key, on_clipboard_received, running, now, connection_state, ping_task>>

\* recv() raises ConnectionClosed: the socket went away before the first frame.
KeyExchangeClosed(c) ==
    /\ handler[c] = "handshake"
    /\ sock[c] = "closed"
    /\ now - connection_state[c].connected_at < KEY_EXCHANGE_TIMEOUT
    /\ ev' = Event("key_exchange_closed", c, NoFrame,
                   KeyExchangeFailure(c, "closed"),
                   <<Log("error", "closed", c)>>, 0)
    /\ Cleanup(c)
    /\ UNCHANGED <<clipboard_monitor, loop_calls, health_check_task, pre_shared_key, on_clipboard_received, running, now, connection_state, ping_task>>

\* ------------------------------------------------------------------ peer
\* the peer goes away: the transport closes, the handler has yet to notice
PeerClose(c) ==
    /\ handler[c] \in {"handshake", "ack", "loop"}
    /\ sock[c] = "open"
    /\ sock' = [sock EXCEPT ![c] = "closed"]
    /\ ev' = Event("peer_close", c, NoFrame, <<>>, <<>>, 0)
    /\ UNCHANGED <<clipboard_monitor, loop_calls, health_check_task, pre_shared_key, on_clipboard_received, running, now, connections, connection_state,
                   handler, stats, ping_task>>

\* the message loop ends (ConnectionClosed): cleanup
HandlerExit(c) ==
    /\ handler[c] = "loop"
    /\ sock[c] = "closed"
    /\ ev' = Event("handler_exit", c, NoFrame, <<>>, <<>>, 0)
    /\ Cleanup(c)
    /\ UNCHANGED <<clipboard_monitor, loop_calls, health_check_task, pre_shared_key, on_clipboard_received, running, now, connection_state, ping_task>>

\* -------------------------------------------------------- message dispatch
\* a classification that does not look for '|'
IsControlMessageIgnoringPipe(f) == f.json = "object" /\ f.type # "none"

\* _handle_message's test for a control message
IsControlMessage(f) == ~f.pipe /\ f.json = "object" /\ f.type # "none"

\* EncryptionManager.decrypt_from_transmission under the context's key:
\* "ok", or the exception it raises
decrypt_from_transmission(encryption, f) ==
    CASE ~f.pipe -> "InvalidMessageFormatError"
      [] f.iv = 0 \/ f.sealed = 0 -> "InvalidMessageFormatError"
      [] f.iv < 0 \/ f.sealed < 0 -> "InvalidMessageFormatError"
      [] f.iv # AES_IV_SIZE -> "InvalidMessageFormatError"
      [] ~Truthy(encryption) -> "DecryptionError"
      [] f.sealed < 16 -> "DecryptionError"
      [] f.key # encryption -> "DecryptionError"
      [] OTHER -> "ok"

\* ClipboardItem.from_json of the plaintext: "ok", or the exception
from_json(f) ==
    CASE f.plain = "notjson" -> "JSONDecodeError"
      [] f.plain = "nofield" -> "KeyError"
      [] OTHER -> "ok"

\* _handle_control_message: "ok", or the exception it raises.  Only the
\* connection_status branch calls a method of a member (stats.get), and
\* only when the member is non-empty.
handle_control_message(f) ==
    IF f.type = "connection_status" /\ f.stats = "other" THEN "AttributeError" ELSE "ok"

\* the calls made for a decrypted envelope, in order: the clipboard sink,
\* then the received-callback if one was given
ClipboardCallsCallbackFirst(cb, content, wrote, raises) ==
    (IF cb THEN <<Call("on_clipboard_received", content, ~raises)>> ELSE <<>>)
       \o <<Call("write_text", content, wrote)>>

ClipboardCalls(cb, content, wrote, raises) ==
    <<Call("write_text", content, wrote)>>
       \o (IF cb THEN <<Call("on_clipboard_received", content, ~raises)>> ELSE <<>>)

\* _handle_message for a frame on socket c whose state dict is st.  wrote:
\* what ClipboardWriter.write_text returned (it never raises, and the
\* value is dropped); raises: the received-callback raised.  An exception
\* of _handle_control_message is caught by the classification's own
\* `except Exception` and the frame goes on to the decryption path.  Gives
\* the new state dict, the counters, the writes, the calls and the log.
HandleMessage(c, st, f, wrote, raises) ==
    LET d == decrypt_from_transmission(st.encryption, f)
        j == IF d = "ok" THEN from_json(f) ELSE d
    IN  CASE ~st.key_exchanged ->
               [st |-> st, stats |-> stats, io |-> <<>>, calls |-> <<>>,
                log |-> <<Log("warning", "before_key_exchange", c)>>]
          [] IsControlMessage(f) /\ handle_control_message(f) = "ok" ->
               [st |-> st, stats |-> stats, io |-> <<>>, calls |-> <<>>,
                log |-> <<Log("debug", f.type, c)>>]
          [] j = "ok" ->
               [st |-> [st EXCEPT !.messages_received = @ + 1],
                stats |-> [stats EXCEPT !.messages_received = @ + 1],
                io |-> <<>>,
                calls |-> ClipboardCalls(on_clipboard_received, f.content, wrote, raises),
                log |-> <<Log("info", "received", c),
                          Log("debug", IF wrote THEN "clipboard_written"
                                                ELSE "clipboard_failed", c)>>
                        \o (IF raises THEN <<Log("error", "callback_failed", c)>>
                                      ELSE <<>>)]
          [] OTHER ->
               [st |-> st,
                stats |-> [stats EXCEPT !.errors = @ + 1],
                io |-> send_error_report(connections, c, "decryption_failed"),
                calls |-> <<>>,
                log |-> <<Log("error", j, c)>>]

\* One turn of `async for message in websocket`: the timestamps are
\* refreshed, then the frame is dispatched.  A frame that was buffered
\* before the transport closed is still delivered.
handle_client_message(c, f, wrote, raises, cap) ==
    /\ handler[c] = "loop"
    /\ LET st1 == [connection_state[c] EXCEPT !.last_activity = now,
                                               !.last_pong = now,
                                               !.connection_healthy = TRUE]
           r == HandleMessage(c, st1, f, wrote, raises)
       IN  /\ r.stats.messages_received <= cap
           /\ r.stats.errors <= cap
           /\ connection_state' = [connection_state EXCEPT ![c] = r.st]
           /\ stats' = r.stats
           /\ ev' = [Event("message", c, f, r.io, r.log, 0) EXCEPT !.calls = r.calls]
    /\ UNCHANGED <<loop_calls, health_check_task, pre_shared_key, on_clipboard_received, running, now, connections, handler, sock,
                   ping_task>>

\* the same when no clipboard monitor is looked at
RecvMessage(c, f, wrote, raises, cap) ==
    /\ handle_client_message(c, f, wrote, raises, cap)
    /\ UNCHANGED clipboard_monitor

\* The peer's pong to a probe ping: the websockets library consumes it, the
\* message loop is not resumed and no field of the server changes.
PeerPong(c) ==
    /\ handler[c] = "loop"
    /\ sock[c] = "open"
    /\ ev' = Event("pong", c, NoFrame, <<>>, <<>>, 0)
    /\ UNCHANGED <<clipboard_monitor, loop_calls, health_check_task, pre_shared_key, on_clipboard_received, running, now, connections, connection_state,
                   handler, sock, stats, ping_task>>

\* -------------------------------------------------------------- envelopes
\* ClipboardItem (message_parser.py).  A str is a sequence of code points.
RECURSIVE SumOf(_)
SumOf(b) == IF b = <<>> THEN 0 ELSE Head(b) + SumOf(Tail(b))

\* str.encode('utf-8'), for code points below 2048
RECURSIVE utf8_encode(_)
utf8_encode(t) ==
    IF t = <<>> THEN <<>>
    ELSE (IF Head(t) < 128 THEN <<Head(t)>>
          ELSE <<192 + (Head(t) \div 64), 128 + (Head(t) % 64)>>)
         \o utf8_encode(Tail(t))

\* hashlib.sha256().digest_size
DIGEST_SIZE == 32
\* 24 hours in milliseconds
TTL_MS == 24 * 60 * 60 * 1000

\* hashlib.sha256(data).digest(), by its contract: 32 bytes that depend on
\* the bytes of the data and on nothing else
sha256(data) ==
    LET s == SumOf(data) * 7 + Len(data) * 3 IN
    [j \in 1..DIGEST_SIZE |-> (s + j * 29) % 256]

\* one digit of bytes.hex(): 0-9 and a-f
HexDigit(n) == IF n < 10 THEN 48 + n ELSE 87 + n

\* bytes.hex(): two lowercase digits per byte
hex(b) ==
    [i \in 1..(2 * Len(b)) |-> IF i % 2 = 1 THEN HexDigit(b[(i + 1) \div 2] \div 16)
                                             ELSE HexDigit(b[i \div 2] % 16)]

\* EncryptionManager.calculate_hash(content)
calculate_hash(content) == hex(sha256(utf8_encode(content)))

\* an item whose hash is the one of the text "a", computed once
create_text_item_stale_hash(content, source_device_id, id, timestamp) ==
    [id |-> id, content |-> content, contentType |-> "TEXT", timestamp |-> timestamp,
     ttl |-> TTL_MS, synced |-> FALSE, sourceDeviceId |-> source_device_id,
     hash |-> calculate_hash(<<97>>)]

\* ClipboardItem.create_text_item(content, source_device_id); id is the
\* UUID that uuid4() draws, timestamp the clock's reading in milliseconds
create_text_item(content, source_device_id, id, timestamp) ==
    [id |-> id, content |-> content, contentType |-> "TEXT", timestamp |-> timestamp,
     ttl |-> TTL_MS, synced |-> FALSE, sourceDeviceId |-> source_device_id,
     hash |-> calculate_hash(content)]

\* the text of a clipboard content of the server's runs
TextOf(content) == IF content = "a" THEN <<97>> ELSE <<98>>

\* self.device_id, a constructor argument: "pc"
DeviceId == <<112, 99>>

\* a UUID as uuid4() draws them, by its first characters
UUID(n) == <<HexDigit(n % 16), HexDigit((n * 7 + 3) % 16), 45, 52>>

\* ------------------------------------------------------------- broadcast
\* dict order of self.connections: sockets in the order they were accepted
SeqOf(S) ==
    LET RECURSIVE R(_)
        R(T) == IF T = {} THEN <<>> ELSE <<Min(T)>> \o R(T \ {Min(T)})
    IN  R(S)

\* a send that does not look whether the connection is Ready
send_clipboard_unguarded(a, ws, content) ==
    IF sock[ws] = "open"
      THEN [cs |-> [a.cs EXCEPT ![ws] = [@ EXCEPT !.messages_sent = @ + 1,
                                                  !.last_activity = now]],
            stats |-> [a.stats EXCEPT !.messages_sent = @ + 1],
            io |-> Append(a.io, [Write(ws, "clipboard", content) EXCEPT !.ok = TRUE]),
            ret |-> TRUE, raised |-> FALSE]
      ELSE [cs |-> [a.cs EXCEPT ![ws] = [@ EXCEPT !.connection_healthy = FALSE]],
            stats |-> [a.stats EXCEPT !.errors = @ + 1],
            io |-> Append(a.io, Write(ws, "clipboard", content))
                      \o send_error_report(connections, ws, "send_failed"),
            ret |-> FALSE, raised |-> FALSE]

\* a send that lets the transport's exception out and leaves the health flag
send_clipboard_raising(a, ws, content) ==
    LET st == a.cs[ws] IN
    CASE ws \notin connections \/ ~st.key_exchanged \/ ~Truthy(st.encryption) ->
           [cs |-> a.cs, stats |-> a.stats, io |-> a.io, ret |-> FALSE, raised |-> FALSE]
      [] sock[ws] = "open" ->
           [cs |-> [a.cs EXCEPT ![ws] = [@ EXCEPT !.messages_sent = @ + 1,
                                                  !.last_activity = now]],
            stats |-> [a.stats EXCEPT !.messages_sent = @ + 1],
            io |-> Append(a.io, [Write(ws, "clipboard", content) EXCEPT !.ok = TRUE]),
            ret |-> TRUE, raised |-> FALSE]
      [] OTHER ->
           [cs |-> a.cs, stats |-> a.stats,
            io |-> Append(a.io, Write(ws, "clipboard", content)),
            ret |-> FALSE, raised |-> TRUE]

\* a send that counts the message but forgets the time of the activity
send_clipboard_no_activity(a, ws, content) ==
    LET st == a.cs[ws] IN
    CASE ws \notin connections \/ ~st.key_exchanged \/ ~Truthy(st.encryption) ->
           [cs |-> a.cs, stats |-> a.stats, io |-> a.io, ret |-> FALSE, raised |-> FALSE]
      [] sock[ws] = "open" ->
           [cs |-> [a.cs EXCEPT ![ws] = [@ EXCEPT !.messages_sent = @ + 1]],
            stats |-> [a.stats EXCEPT !.messages_sent = @ + 1],
            io |-> Append(a.io, [Write(ws, "clipboard", content) EXCEPT !.ok = TRUE]),
            ret |-> TRUE, raised |-> FALSE]
      [] OTHER ->
           [cs |-> [a.cs EXCEPT ![ws] = [@ EXCEPT !.connection_healthy = FALSE]],
            stats |-> [a.stats EXCEPT !.errors = @ + 1],
            io |-> Append(a.io, Write(ws, "clipboard", content))
                      \o send_error_report(connections, ws, "send_failed"),
            ret |-> FALSE, raised |-> FALSE]

\* a send that takes its own success for the peer's answer
send_clipboard_advances_pong(a, ws, content) ==
    LET st == a.cs[ws] IN
    CASE ws \notin connections \/ ~st.key_exchanged \/ ~Truthy(st.encryption) ->
           [cs |-> a.cs, stats |-> a.stats, io |-> a.io, ret |-> FALSE, raised |-> FALSE]
      [] sock[ws] = "open" ->
           [cs |-> [a.cs EXCEPT ![ws] = [@ EXCEPT !.messages_sent = @ + 1,
                                                  !.last_pong = now]],
            stats |-> [a.stats EXCEPT !.messages_sent = @ + 1],
            io |-> Append(a.io, [Write(ws, "clipboard", content) EXCEPT !.ok = TRUE]),
            ret |-> TRUE, raised |-> FALSE]
      [] OTHER ->
           [cs |-> [a.cs EXCEPT ![ws] = [@ EXCEPT !.connection_healthy = FALSE]],
            stats |-> [a.stats EXCEPT !.errors = @ + 1],
            io |-> Append(a.io, Write(ws, "clipboard", content))
                      \o send_error_report(connections, ws, "send_failed"),
            ret |-> FALSE, raised |-> FALSE]

\* The write of send_clipboard: the frame given to websocket.send carries
\* the envelope that create_text_item builds for this call's content at the
\* clock's reading (the run draws one UUID for all its items; TextItems
\* holds the items of the run's contents as built at time 0).
TextItems ==
    [content \in Contents |-> create_text_item(TextOf(content), DeviceId, UUID(0), 0)]

ClipboardFrame(ws, content, ok) ==
    [to |-> ws, kind |-> "clipboard", detail |-> content, ok |-> ok,
     envelope |-> [TextItems[content] EXCEPT !.timestamp = now * 1000]]

\* send_clipboard(ws, content) from the state a = [cs, stats, io]: the same
\* with ret (the value returned) and raised (an exception left the method).
send_clipboard(a, ws, content) ==
    LET st == a.cs[ws] IN
    CASE ws \notin connections ->
           [cs |-> a.cs, stats |-> a.stats, io |-> a.io, ret |-> FALSE, raised |-> FALSE]
      [] ~st.key_exchanged ->
           [cs |-> a.cs, stats |-> a.stats, io |-> a.io, ret |-> FALSE, raised |-> FALSE]
      [] ~Truthy(st.encryption) ->
           [cs |-> a.cs, stats |-> a.stats, io |-> a.io, ret |-> FALSE, raised |-> FALSE]
      [] sock[ws] = "open" ->
           [cs |-> [a.cs EXCEPT ![ws] = [@ EXCEPT !.messages_sent = @ + 1,
                                                  !.last_activity = now]],
            stats |-> [a.stats EXCEPT !.messages_sent = @ + 1],
            io |-> Append(a.io, ClipboardFrame(ws, content, TRUE)),
            ret |-> TRUE, raised |-> FALSE]
      [] OTHER ->
           [cs |-> [a.cs EXCEPT ![ws] = [@ EXCEPT !.connection_healthy = FALSE]],
            stats |-> [a.stats EXCEPT !.errors = @ + 1],
            io |-> Append(a.io, ClipboardFrame(ws, content, FALSE))
                      \o send_error_report(connections, ws, "send_failed"),
            ret |-> FALSE, raised |-> FALSE]

\* send_clipboard(ws, content) called on its own, for any socket the server
\* has ever accepted
SendClipboard(ws, content, cap) ==
    /\ running
    /\ handler[ws] # "idle"
    /\ LET r == send_clipboard([cs |-> connection_state, stats |-> stats, io |-> <<>>],
                               ws, content)
       IN  /\ r.stats.messages_sent <= cap
           /\ r.stats.errors <= cap
           /\ connection_state' = r.cs
           /\ stats' = r.stats
           /\ ev' = [Event("send_clipboard", ws, [NoFrame EXCEPT !.content = content],
                           r.io, <<>>, 0) EXCEPT !.ret = r.ret, !.raised = r.raised]
    /\ UNCHANGED <<clipboard_monitor, loop_calls, health_check_task, pre_shared_key, on_clipboard_received, running, now, connections,
                   handler, sock, ping_task>>

\* a broadcast that gives up at the first send that fails
RECURSIVE BroadcastLoopStopsAtFailure(_, _, _)
BroadcastLoopStopsAtFailure(b, snapshot, content) ==
    IF snapshot = <<>> THEN b
    ELSE LET ws == Head(snapshot)
             r == send_clipboard([cs |-> b.cs, stats |-> b.stats, io |-> b.io], ws, content)
             nb == [cs |-> r.cs, stats |-> r.stats, io |-> r.io,
                    count |-> IF ~r.raised /\ r.ret THEN b.count + 1 ELSE b.count,
                    disconnected |-> b.disconnected]
         IN  IF r.ret THEN BroadcastLoopStopsAtFailure(nb, Tail(snapshot), content)
                      ELSE nb

\* the loop of broadcast_clipboard over the snapshot
RECURSIVE BroadcastLoop(_, _, _)
BroadcastLoop(b, snapshot, content) ==
    IF snapshot = <<>> THEN b
    ELSE LET ws == Head(snapshot)
             \* the state after the send to ws that returned r
             step(r) == [cs |-> r.cs, stats |-> r.stats, io |-> r.io,
                         count |-> IF ~r.raised /\ r.ret THEN b.count + 1 ELSE b.count,
                         disconnected |-> IF r.raised THEN b.disconnected \cup {ws}
                                                      ELSE b.disconnected]
             \* a one-element set: the send is computed once per connection
             after == {step(r) : r \in {send_clipboard([cs |-> b.cs, stats |-> b.stats,
                                                        io |-> b.io], ws, content)}}
         IN  CHOOSE x \in {BroadcastLoop(nb, Tail(snapshot), content) : nb \in after} : TRUE

\* broadcast_clipboard(content)
broadcast_clipboard(content, cap) ==
    /\ running
    /\ LET b == BroadcastLoop([cs |-> connection_state, stats |-> stats, io |-> <<>>,
                               count |-> 0, disconnected |-> {}],
                              SeqOf(connections), content)
       IN  /\ b.stats.messages_sent <= cap
           /\ b.stats.errors <= cap
           /\ connection_state' = b.cs
           /\ stats' = b.stats
           /\ connections' = connections \ b.disconnected
           /\ ev' = Event("broadcast", 0, [NoFrame EXCEPT !.content = content],
                          b.io, <<>>, b.count)
    /\ UNCHANGED <<clipboard_monitor, health_check_task, pre_shared_key, on_clipboard_received, running, now, handler, sock, ping_task>>

\* broadcast_clipboard(content) run by the event loop on its own account
Broadcast(content, cap) ==
    /\ broadcast_clipboard(content, cap)
    /\ UNCHANGED loop_calls

\* ---------------------------------------------------------- liveness probe
\* the probe's test for a dead connection at time t (strictly older than
\* PONG_TIMEOUT on both timestamps)
ProbeStale(st, t) ==
    /\ t - st.last_pong > PONG_TIMEOUT
    /\ t - st.last_activity > PONG_TIMEOUT

\* The first loop of a tick over the snapshot: a stale connection is marked
\* unhealthy and put on the dead list; any other is pinged, and is put on
\* the dead list when the ping raises.
RECURSIVE PingScan(_, _, _)
PingScan(p, snapshot, t) ==
    IF snapshot = <<>> THEN p
    ELSE LET ws == Head(snapshot)
             st == p.cs[ws]
         IN  IF ProbeStale(st, t)
               THEN PingScan([cs |-> [p.cs EXCEPT ![ws] = [@ EXCEPT !.connection_healthy = FALSE]],
                              dead |-> Append(p.dead, ws),
                              io |-> p.io,
                              log |-> Append(p.log, Log("warning", "stale", ws))],
                             Tail(snapshot), t)
               ELSE PingScan([cs |-> p.cs,
                              dead |-> IF sock[ws] = "open" THEN p.dead
                                                            ELSE Append(p.dead, ws),
                              io |-> Append(p.io, Write(ws, "ping", "")),
                              log |-> IF sock[ws] = "open" THEN p.log
                                      ELSE Append(p.log, Log("warning", "ping_failed", ws))],
                             Tail(snapshot), t)

\* The second loop of a tick from the dead list `dead` on, with live set
\* conns: entries no longer in the live set are skipped; at the first one
\* that is, the task suspends in ws.close().
RECURSIVE SkipGone(_, _)
SkipGone(dead, conns) ==
    IF dead = <<>> THEN <<>>
    ELSE IF Head(dead) \in conns THEN dead
    ELSE SkipGone(Tail(dead), conns)

PingEvict(dead, conns) ==
    LET rest == SkipGone(dead, conns) IN
    /\ ping_task' = IF rest = <<>> THEN [pc |-> "sleep", dead |-> <<>>]
                                   ELSE [pc |-> "closing", dead |-> rest]
    /\ sock' = IF rest = <<>> THEN sock ELSE [sock EXCEPT ![Head(rest)] = "closed"]

\* A tick of _ping_connections, from the end of its sleep to the first
\* suspension in the removal loop (or to the next sleep).
PingTick ==
    /\ running
    /\ ping_task.pc \in {"sleep", "backoff"}
    /\ LET p == PingScan([cs |-> connection_state, dead |-> <<>>, io |-> <<>>, log |-> <<>>],
                         SeqOf(connections), now)
       IN  /\ connection_state' = p.cs
           /\ PingEvict(p.dead, connections)
           /\ ev' = Event("ping_tick", 0, NoFrame, p.io, p.log, Len(p.dead))
    /\ UNCHANGED <<clipboard_monitor, loop_calls, health_check_task, pre_shared_key, on_clipboard_received, running, now, connections, handler, stats>>

\* a probe that ends at the KeyError
PingClosedFatal ==
    /\ running
    /\ ping_task.pc = "closing"
    /\ LET ws == Head(ping_task.dead) IN
       IF ws \in connections
         THEN /\ connections' = connections \ {ws}
              /\ stats' = [stats EXCEPT !.active_connections = Cardinality(connections \ {ws})]
              /\ PingEvict(Tail(ping_task.dead), connections \ {ws})
              /\ ev' = Event("ping_closed", ws, NoFrame, <<>>,
                             <<Log("info", "removed_dead", ws)>>, 0)
         ELSE /\ ping_task' = [pc |-> "done", dead |-> <<>>]
              /\ ev' = Event("ping_closed", ws, NoFrame, <<>>,
                             <<Log("error", "KeyError", ws)>>, 0)
              /\ UNCHANGED <<connections, stats, sock>>
    /\ UNCHANGED <<clipboard_monitor, loop_calls, health_check_task, pre_shared_key, on_clipboard_received, running, now,
                   connection_state, handler>>

\* ws.close() has returned: `del self.connections[ws]`.  The socket's
\* handler may have removed it meanwhile; then the del raises KeyError, the
\* task logs it, drops the rest of its dead list and sleeps (the back-off
\* sleep of the except clause, then the sleep of the next round).
PingClosed ==
    /\ running
    /\ ping_task.pc = "closing"
    /\ LET ws == Head(ping_task.dead) IN
       IF ws \in connections
         THEN /\ connections' = connections \ {ws}
              /\ stats' = [stats EXCEPT !.active_connections = Cardinality(connections \ {ws})]
              /\ PingEvict(Tail(ping_task.dead), connections \ {ws})
              /\ ev' = Event("ping_closed", ws, NoFrame, <<>>,
                             <<Log("info", "removed_dead", ws)>>, 0)
         ELSE /\ ping_task' = [pc |-> "backoff", dead |-> <<>>]
              /\ ev' = Event("ping_closed", ws, NoFrame, <<>>,
                             <<Log("error", "KeyError", ws)>>, 0)
              /\ UNCHANGED <<connections, stats, sock>>
    /\ UNCHANGED <<clipboard_monitor, loop_calls, health_check_task, pre_shared_key, on_clipboard_received, running, now, connection_state, handler>>

\* --------------------------------------------------------- health classifier
pong_stale(st, t) == t - st.last_pong > PONG_TIMEOUT

activity_stale(st, t) == t - st.last_activity > INACTIVITY_TIMEOUT

\* a classifier without hysteresis: healthy unless both signals are stale
HealthVerdictNoHysteresis(st, t) == ~(pong_stale(st, t) /\ activity_stale(st, t))

\* the classifier's verdict on one connection: its healthy flag after the tick
HealthVerdict(st, t) ==
    CASE pong_stale(st, t) /\ activity_stale(st, t) -> FALSE
      [] ~st.connection_healthy /\ ~pong_stale(st, t) /\ ~activity_stale(st, t) -> TRUE
      [] OTHER -> st.connection_healthy

\* what the classifier logs about one connection inside its loop
HealthLog(st, t, ws) ==
    CASE pong_stale(st, t) /\ activity_stale(st, t) ->
           IF st.connection_healthy THEN <<Log("warning", "marked_unhealthy", ws)>>
                                    ELSE <<>>
      [] ~st.connection_healthy /\ ~pong_stale(st, t) /\ ~activity_stale(st, t) ->
           <<Log("info", "recovered", ws)>>
      [] pong_stale(st, t) \/ activity_stale(st, t) ->
           <<Log("debug", "latency", ws)>>
      [] OTHER -> <<>>

\* the warnings after the loop: one per connection found with both signals
\* stale in this tick, whatever its flag was before
RECURSIVE UnhealthyLog(_, _)
UnhealthyLog(snapshot, t) ==
    IF snapshot = <<>> THEN <<>>
    ELSE LET ws == Head(snapshot)
             st == connection_state[ws]
         IN  (IF pong_stale(st, t) /\ activity_stale(st, t)
                THEN <<Log("warning", "unhealthy_connection", ws)>>
                ELSE <<>>) \o UnhealthyLog(Tail(snapshot), t)

RECURSIVE HealthLoopLog(_, _)
HealthLoopLog(snapshot, t) ==
    IF snapshot = <<>> THEN <<>>
    ELSE HealthLog(connection_state[Head(snapshot)], t, Head(snapshot))
            \o HealthLoopLog(Tail(snapshot), t)

\* a classifier that also drops the connections it finds unhealthy
HealthTickEvicting ==
    /\ running
    /\ health_check_task.pc \in {"sleep", "backoff"}
    /\ health_check_task' = [pc |-> "sleep"]
    /\ connection_state' =
          [c \in Conns |-> IF c \in connections
                             THEN [connection_state[c] EXCEPT !.connection_healthy =
                                        HealthVerdict(connection_state[c], now)]
                             ELSE connection_state[c]]
    /\ connections' = {c \in connections : HealthVerdict(connection_state[c], now)}
    /\ ev' = Event("health_tick", 0, NoFrame, <<>>,
                   HealthLoopLog(SeqOf(connections), now)
                      \o UnhealthyLog(SeqOf(connections), now), 0)
    /\ UNCHANGED <<clipboard_monitor, loop_calls, pre_shared_key, on_clipboard_received, running, now, handler, sock, stats, ping_task>>

\* A tick of _health_check: it has no suspension point.
HealthTick ==
    /\ running
    /\ health_check_task.pc \in {"sleep", "backoff"}
    /\ health_check_task' = [pc |-> "sleep"]
    /\ connection_state' =
          [c \in Conns |-> IF c \in connections
                             THEN [connection_state[c] EXCEPT !.connection_healthy =
                                        HealthVerdict(connection_state[c], now)]
                             ELSE connection_state[c]]
    /\ ev' = Event("health_tick", 0, NoFrame, <<>>,
                   HealthLoopLog(SeqOf(connections), now)
                      \o UnhealthyLog(SeqOf(connections), now), 0)
    /\ UNCHANGED <<clipboard_monitor, loop_calls, pre_shared_key, on_clipboard_received, running, now, connections, handler, sock,
                   stats, ping_task>>

\* --------------------------------------------------------------- lifecycle
\* The head of a snapshot whose connections are all stale: the probe marks
\* them without suspending.
RECURSIVE StaleHead(_, _)
StaleHead(snapshot, t) ==
    IF snapshot = <<>> \/ ~ProbeStale(connection_state[Head(snapshot)], t) THEN <<>>
    ELSE <<Head(snapshot)>> \o StaleHead(Tail(snapshot), t)

\* A tick of _ping_connections that suspends in its first `await
\* websocket.ping()`: the stale connections before it are on the dead list,
\* the rest of the snapshot is still to be pinged.
PingSuspend ==
    /\ running
    /\ ping_task.pc \in {"sleep", "backoff"}
    /\ LET snapshot == SeqOf(connections)
           head == StaleHead(snapshot, now)
           p == PingScan([cs |-> connection_state, dead |-> <<>>, io |-> <<>>, log |-> <<>>],
                         head, now)
       IN  /\ Len(head) < Len(snapshot)
           /\ connection_state' = p.cs
           /\ ping_task' = [pc |-> "pinging", dead |-> p.dead,
                            todo |-> SubSeq(snapshot, Len(head) + 1, Len(snapshot))]
           /\ ev' = Event("ping_suspend", snapshot[Len(head) + 1], NoFrame, <<>>, p.log, 0)
    /\ UNCHANGED <<clipboard_monitor, loop_calls, health_check_task, pre_shared_key, on_clipboard_received, running, now,
                   connections, handler, sock, stats>>

\* ping() returns or raises: the scan goes on to its end, then the removal
\* loop runs to its first suspension.
PingResumed ==
    /\ running
    /\ ping_task.pc = "pinging"
    /\ LET p == PingScan([cs |-> connection_state, dead |-> ping_task.dead,
                          io |-> <<>>, log |-> <<>>], ping_task.todo, now)
       IN  /\ connection_state' = p.cs
           /\ PingEvict(p.dead, connections)
           /\ ev' = Event("ping_tick", 0, NoFrame, p.io, p.log, Len(p.dead))
    /\ UNCHANGED <<clipboard_monitor, loop_calls, health_check_task, pre_shared_key, on_clipboard_received, running, now,
                   connections, handler, stats>>

\* A tick of _health_check in which a statement raises an Exception after
\* the first k connections of the snapshot are classified (a logging call,
\* for instance): the except clause logs the error and sleeps.
HealthTickRaises(k) ==
    /\ running
    /\ health_check_task.pc \in {"sleep", "backoff"}
    /\ k <= Cardinality(connections)
    /\ LET done == SubSeq(SeqOf(connections), 1, k) IN
       /\ connection_state' =
             [c \in Conns |-> IF \E i \in 1..k : done[i] = c
                                THEN [connection_state[c] EXCEPT !.connection_healthy =
                                           HealthVerdict(connection_state[c], now)]
                                ELSE connection_state[c]]
       /\ ev' = Event("health_tick", 0, NoFrame, <<>>,
                      HealthLoopLog(done, now) \o <<Log("error", "health_check_error", 0)>>, 0)
    /\ health_check_task' = [pc |-> "backoff"]
    /\ UNCHANGED <<clipboard_monitor, loop_calls, pre_shared_key, on_clipboard_received, running, now, connections, handler,
                   sock, stats, ping_task>>

\* The finally clause of start(), as far as its first await: _running is
\* cleared and the probe's task is cancelled.  (The classifier's task is
\* cancelled when the probe's task has ended.)
Stop ==
    /\ running
    /\ running' = FALSE
    /\ ev' = Event("stop", 0, NoFrame, <<>>, <<>>, 0)
    /\ UNCHANGED <<clipboard_monitor, loop_calls, health_check_task, pre_shared_key, on_clipboard_received, now, connections,
                   connection_state, handler, sock, stats, ping_task>>

\* a probe that, cancelled while it closes a socket, still removes it
PingCancelledStillEvicts ==
    /\ ~running
    /\ ping_task.pc \in {"sleep", "backoff", "pinging", "closing"}
    /\ ping_task' = [pc |-> "done", dead |-> <<>>]
    /\ connections' = IF ping_task.pc = "closing"
                        THEN connections \ {Head(ping_task.dead)} ELSE connections
    /\ ev' = Event("ping_cancelled", 0, NoFrame, <<>>, <<>>, 0)
    /\ UNCHANGED <<clipboard_monitor, loop_calls, health_check_task, pre_shared_key, on_clipboard_received, running, now,
                   connection_state, handler, sock, stats>>

\* CancelledError is raised in the probe's task where it is suspended: in
\* its sleep, in ping() or in close() the outer except clause breaks the
\* loop; in the back-off sleep the error leaves the coroutine.  The task
\* ends without another statement of the tick.
PingCancelled ==
    /\ ~running
    /\ ping_task.pc \in {"sleep", "backoff", "pinging", "closing"}
    /\ ping_task' = [pc |-> "done", dead |-> <<>>]
    /\ ev' = Event("ping_cancelled", 0, NoFrame, <<>>, <<>>, 0)
    /\ UNCHANGED <<clipboard_monitor, loop_calls, health_check_task, pre_shared_key, on_clipboard_received, running, now,
                   connections, connection_state, handler, sock, stats>>

\* The classifier's task after _running is cleared: its sleep ends and it
\* finds the flag cleared, or it is cancelled in its sleep; it ends.
HealthExit ==
    /\ ~running
    /\ health_check_task.pc \in {"sleep", "backoff"}
    /\ health_check_task' = [pc |-> "done"]
    /\ ev' = Event("health_exit", 0, NoFrame, <<>>, <<>>, 0)
    /\ UNCHANGED <<clipboard_monitor, loop_calls, pre_shared_key, on_clipboard_received, running, now, connections,
                   connection_state, handler, sock, stats, ping_task>>

\* ---------------------------------------------------------- local clipboard
\* notifications of the clipboard monitor during a run
MaxHandOffs == 3
\* cap of the counters in runs with a clipboard monitor
HandOffCap == MaxHandOffs * NumConns

\* What asyncio.get_event_loop() finds in the thread of the clipboard
\* monitor, a plain threading.Thread: no event loop ("none", the call raises
\* RuntimeError).  "running" and "idle" are a thread with a loop of its own.
MonitorThreadLoop == "none"

\* a coroutine given to a loop: by which call, to which loop
HandOff(via, loop, content) == [via |-> via, loop |-> loop, content |-> content]

\* a notification that schedules the broadcast in the try block and again
\* in the fallback
on_clipboard_changed_twice(thread_loop, main_loop, content) ==
    <<HandOff("run_coroutine_threadsafe", "main", content),
      HandOff("run_coroutine_threadsafe", "main", content)>>

\* AppConnectServer._on_clipboard_changed(content) in a thread where
\* get_event_loop() gives thread_loop, with self._main_loop set or not: the
\* hand-offs it makes.  create_task in a thread whose loop is not running
\* raises RuntimeError, which leads to the fallback as well.
on_clipboard_changed(thread_loop, main_loop, content) ==
    IF thread_loop = "running"
      THEN <<HandOff("run_coroutine_threadsafe", "thread", content)>>
      ELSE IF main_loop THEN <<HandOff("run_coroutine_threadsafe", "main", content)>>
                        ELSE <<>>

\* The clipboard monitor's thread finds new local content and calls
\* on_change(content).
OnClipboardChanged(content) ==
    /\ running
    /\ loop_calls.handed < MaxHandOffs
    /\ LET calls == on_clipboard_changed(MonitorThreadLoop, running, content) IN
       /\ loop_calls' = [loop_calls EXCEPT !.queue = @ \o calls,
                                           !.handed = @ + Len(calls)]
       /\ ev' = [Event("on_clipboard_changed", 0, [NoFrame EXCEPT !.content = content],
                       <<>>, <<>>, 0) EXCEPT !.calls = calls]
    /\ UNCHANGED <<clipboard_monitor, health_check_task, pre_shared_key, on_clipboard_received, running, now,
                   connections, connection_state, handler, sock, stats, ping_task>>

\* The event loop runs the coroutine at the head of its queue.
RunScheduled ==
    /\ loop_calls.queue # <<>>
    /\ Head(loop_calls.queue).loop = "main"
    /\ broadcast_clipboard(Head(loop_calls.queue).content, HandOffCap)
    /\ loop_calls' = [loop_calls EXCEPT !.queue = Tail(@), !.done = @ + 1]

\* ------------------------------------------------------- clipboard monitor
\* hashlib.sha256(content.encode('utf-8')).hexdigest()
hexdigest(content) == hex(sha256(utf8_encode(TextOf(content))))

\* ClipboardWriter.write_text(text) on an executor thread: pyperclip.copy
write_text(m, text) == [m EXCEPT !.os = [text |-> text, origin |-> "peer"]]

\* ClipboardMonitor.set_content(content) on an executor thread, called by
\* AppConnectServer._on_clipboard_received
set_content(m, content) ==
    [m EXCEPT !.last_content = content,
              !.last_hash = hexdigest(content),
              !.os = [text |-> content, origin |-> "peer"]]

\* Somebody copies a text on this machine.
LocalCopy(content) ==
    /\ running
    /\ clipboard_monitor.os.text # content
    /\ clipboard_monitor' = [clipboard_monitor EXCEPT
                                !.os = [text |-> content, origin |-> "local"]]
    /\ ev' = Event("local_copy", 0, [NoFrame EXCEPT !.content = content], <<>>, <<>>, 0)
    /\ UNCHANGED <<loop_calls, health_check_task, pre_shared_key, on_clipboard_received, running,
                   now, connections, connection_state, handler, sock, stats, ping_task>>

\* _monitor_loop, from pyperclip.paste() to the debounce sleep: the text on
\* the clipboard is not empty and differs from _last_content, its digest
\* differs from _last_hash; both fields are set.  (In any other case the
\* thread sleeps and polls again: no field changes.)
MonitorPoll ==
    /\ running
    /\ clipboard_monitor.pc = "poll"
    /\ LET current_content == clipboard_monitor.os IN
       /\ current_content.text # ""
       /\ current_content.text # clipboard_monitor.last_content
       /\ hexdigest(current_content.text) # clipboard_monitor.last_hash
       /\ clipboard_monitor' = [clipboard_monitor EXCEPT
                                   !.last_content = current_content.text,
                                   !.last_hash = hexdigest(current_content.text),
                                   !.pc = "debounce",
                                   !.current = current_content]
       /\ ev' = Event("monitor_poll", 0, [NoFrame EXCEPT !.content = current_content.text],
                      <<>>, <<>>, 0)
    /\ UNCHANGED <<loop_calls, health_check_task, pre_shared_key, on_clipboard_received, running,
                   now, connections, connection_state, handler, sock, stats, ping_task>>

\* _monitor_loop after the debounce sleep: when the clipboard still holds
\* the text read before, on_change(current_content) is called, which is
\* AppConnectServer._on_clipboard_changed.
MonitorNotify ==
    /\ running
    /\ clipboard_monitor.pc = "debounce"
    /\ loop_calls.handed < MaxHandOffs
    /\ LET content == clipboard_monitor.current.text
           calls == IF clipboard_monitor.os.text = content
                      THEN on_clipboard_changed(MonitorThreadLoop, running, content)
                      ELSE <<>>
       IN  /\ loop_calls' = [loop_calls EXCEPT !.queue = @ \o calls,
                                               !.handed = @ + Len(calls)]
           /\ ev' = [Event(IF clipboard_monitor.os.text = content
                             THEN "on_clipboard_changed" ELSE "monitor_skip",
                           0, [NoFrame EXCEPT !.content = content], <<>>, <<>>, 0)
                     EXCEPT !.calls = calls]
    /\ clipboard_monitor' = [clipboard_monitor EXCEPT !.pc = "poll"]
    /\ UNCHANGED <<health_check_task, pre_shared_key, on_clipboard_received, running, now,
                   connections, connection_state, handler, sock, stats, ping_task>>

\* A peer's envelope with the given content arrives on socket c:
\* _handle_message as far as its first run_in_executor; the calls it makes
\* on the executor, one after the other, are still to run.
RecvEnvelope(c, content, cap) ==
    /\ handle_client_message(c, EncryptedFrame(connection_state[c].encryption, AES_IV_SIZE,
                                               40, "envelope", content),
                             TRUE, FALSE, cap)
    /\ clipboard_monitor' = [clipboard_monitor EXCEPT !.jobs = @ \o ev'.calls]

\* An executor thread runs the next call of _handle_message.
ExecutorRun ==
    /\ clipboard_monitor.jobs # <<>>
    /\ LET job == Head(clipboard_monitor.jobs)
           m == [clipboard_monitor EXCEPT !.jobs = Tail(@)]
       IN  /\ clipboard_monitor' = IF job.fn = "write_text" THEN write_text(m, job.arg)
                                                            ELSE set_content(m, job.arg)
           /\ ev' = Event(job.fn, 0, [NoFrame EXCEPT !.content = job.arg], <<>>, <<>>, 0)
    /\ UNCHANGED <<loop_calls, health_check_task, pre_shared_key, on_clipboard_received, running,
                   now, connections, connection_state, handler, sock, stats, ping_task>>

\* ------------------------------------------------------------ specification
\* The whole server.
Next ==
    \/ Start
    \/ Advance(MaxTime)
    \/ \E c \in Conns : Accept(c, MaxTime)
    \/ \E c \in Conns : \E f \in HandshakeFrames(c) : KeyExchangeRecv(c, f)
    \/ \E c \in Conns : KeyExchangeAck(c)
    \/ \E c \in Conns : KeyExchangeTimeout(c)
    \/ \E c \in Conns : KeyExchangeClosed(c)
    \/ \E c \in Conns : PeerClose(c)
    \/ \E c \in Conns : HandlerExit(c)
    \/ \E c \in Conns : \E f \in MessageFrames(c) : \E wrote \in WriteOutcomes(f) :
          \E raises \in CallbackOutcomes(f) : RecvMessage(c, f, wrote, raises, MaxCount)
    \/ \E c \in Conns : PeerPong(c)
    \/ \E content \in Contents : Broadcast(content, MaxCount)
    \/ \E c \in Conns : \E content \in Contents : SendClipboard(c, content, MaxCount)
    \/ PingTick
    \/ PingSuspend
    \/ PingResumed
    \/ PingClosed
    \/ HealthTick
    \/ \E k \in 0..NumConns : HealthTickRaises(k)
    \/ Stop
    \/ PingCancelled
    \/ HealthExit
    \/ \E content \in Contents : OnClipboardChanged(content)
    \/ RunScheduled

Spec == Init /\ [][Next]_vars

\* The server with long-lived connections: every handshake frame is well
\* formed or of the wrong type, every message a valid envelope.
GoodFrames(c) == {EncryptedFrame(IF Truthy(pre_shared_key) THEN PSK ELSE Key(c, AES_KEY_SIZE),
                                 AES_IV_SIZE, 40, "envelope", "a")}

NextMonitor ==
    \/ Start
    \/ Advance(MaxTime)
    \/ \E c \in Conns : Accept(c, 0)
    \/ \E c \in Conns : KeyExchangeRecv(c, KeyExchangeFrame("key", Key(c, AES_KEY_SIZE)))
    \/ \E c \in Conns : KeyExchangeAck(c)
    \/ \E c \in Conns : KeyExchangeTimeout(c)
    \/ \E c \in Conns : KeyExchangeClosed(c)
    \/ \E c \in Conns : PeerClose(c)
    \/ \E c \in Conns : HandlerExit(c)
    \/ \E c \in Conns : \E f \in GoodFrames(c) : RecvMessage(c, f, TRUE, FALSE, 1)
    \/ \E c \in Conns : PeerPong(c)
    \/ Broadcast("a", 1)
    \/ PingTick
    \/ PingClosed
    \/ HealthTick

SpecMonitor == Construct(TRUE) /\ [][NextMonitor]_vars

\* The server during handshakes: every first frame a peer may send, the
\* handshake's timer, and valid envelopes afterwards.
NextHandshake ==
    \/ Start
    \/ Advance(TimeStep)
    \/ \E c \in Conns : Accept(c, TimeStep)
    \/ \E c \in Conns : \E f \in HandshakeFrames(c) : KeyExchangeRecv(c, f)
    \/ \E c \in Conns : KeyExchangeAck(c)
    \/ \E c \in Conns : KeyExchangeTimeout(c)
    \/ \E c \in Conns : KeyExchangeClosed(c)
    \/ \E c \in Conns : PeerClose(c)
    \/ \E c \in Conns : HandlerExit(c)
    \/ \E c \in Conns : \E f \in GoodFrames(c) : RecvMessage(c, f, TRUE, FALSE, 1)
    \/ Broadcast("a", 1)
    \/ PingTick
    \/ PingClosed
    \/ HealthTick

SpecHandshake == Construct(TRUE) /\ [][NextHandshake]_vars

\* The server exchanging messages with one peer: it connects at once and
\* completes the handshake, then sends every kind of frame; no time passes.
NextDispatch ==
    \/ Start
    \/ Accept(1, 0)
    \/ KeyExchangeRecv(1, KeyExchangeFrame("key", Key(1, AES_KEY_SIZE)))
    \/ KeyExchangeAck(1)
    \/ KeyExchangeClosed(1)
    \/ PeerClose(1)
    \/ HandlerExit(1)
    \/ \E f \in MessageFrames(1) : \E wrote \in WriteOutcomes(f) :
          \E raises \in CallbackOutcomes(f) : RecvMessage(1, f, wrote, raises, MaxCount)
    \/ \E content \in Contents : Broadcast(content, MaxCount)
    \/ PingTick
    \/ PingClosed
    \/ HealthTick

SpecDispatch == Init /\ [][NextDispatch]_vars

\* The server broadcasting to its peers: they connect at once, complete the
\* handshake and send valid envelopes; no time passes.
NextBroadcast ==
    \/ Start
    \/ Advance(TimeStep)
    \/ \E c \in Conns : Accept(c, 0)
    \/ \E c \in Conns : KeyExchangeRecv(c, KeyExchangeFrame("key", Key(c, AES_KEY_SIZE)))
    \/ \E c \in Conns : KeyExchangeAck(c)
    \/ \E c \in Conns : KeyExchangeClosed(c)
    \/ \E c \in Conns : PeerClose(c)
    \/ \E c \in Conns : HandlerExit(c)
    \/ \E c \in Conns : \E f \in GoodFrames(c) : RecvMessage(c, f, TRUE, FALSE, 1)
    \/ \E content \in Contents : Broadcast(content, MaxCount)
    \/ \E c \in Conns : SendClipboard(c, "a", MaxCount)
    \/ PingTick
    \/ PingClosed
    \/ HealthTick

SpecBroadcast == Construct(TRUE) /\ [][NextBroadcast]_vars

\* The server with a pre-shared key from its start to the end of its
\* monitors.  The event loop runs a task that is ready: a monitor whose
\* sleep is over ticks, and not every tick raises; a cancelled task is
\* resumed.
NextLifecycle ==
    \/ Start
    \/ Advance(MaxTime)
    \/ \E c \in Conns : Accept(c, 0)
    \/ \E c \in Conns : PeerClose(c)
    \/ \E c \in Conns : HandlerExit(c)
    \/ PingTick
    \/ PingSuspend
    \/ PingResumed
    \/ PingClosed
    \/ HealthTick
    \/ \E k \in 0..NumConns : HealthTickRaises(k)
    \/ Stop
    \/ PingCancelled
    \/ HealthExit

SpecLifecycle ==
    /\ ConstructPreShared
    /\ [][NextLifecycle]_vars
    /\ WF_vars(PingTick \/ PingSuspend)
    /\ WF_vars(PingResumed)
    /\ WF_vars(PingClosed)
    /\ WF_vars(HealthTick)
    /\ WF_vars(PingCancelled)
    /\ WF_vars(HealthExit)

\* The server with a pre-shared key and the clipboard monitor's thread.  The
\* event loop runs what call_soon_threadsafe has queued.
NextHandOff ==
    \/ Start
    \/ \E c \in Conns : Accept(c, 0)
    \/ \E c \in Conns : PeerClose(c)
    \/ \E c \in Conns : HandlerExit(c)
    \/ \E content \in Contents : OnClipboardChanged(content)
    \/ RunScheduled

SpecHandOff ==
    /\ ConstructPreShared
    /\ [][NextHandOff]_vars
    /\ WF_vars(RunScheduled)

\* The server with a pre-shared key, its peers sending envelopes, and the
\* clipboard monitor's thread polling the system clipboard.
NextEcho ==
    \/ Start
    \/ \E c \in Conns : Accept(c, 0)
    \/ \E content \in Contents : LocalCopy(content)
    \/ MonitorPoll
    \/ MonitorNotify
    \/ \E c \in Conns : \E content \in Contents : RecvEnvelope(c, content, MaxCount)
    \/ ExecutorRun
    \/ RunScheduled

SpecEcho == ConstructPreShared /\ [][NextEcho]_vars

\* ------------------------------------------------------- the wire format
\* EncryptionManager's text framing, byte by byte.  A text is a sequence of
\* code points, bytes are a sequence of numbers in 0..255.
AES_TAG_SIZE == 16
\* ord('|')
PIPE == 124
\* ord('=')
PAD == 61

InvalidMessageFormatError == "InvalidMessageFormatError"
DecryptionError == "DecryptionError"
EncryptionError == "EncryptionError"

\* Repeat(x, n): n times x
Repeat(x, n) == IF n = 0 THEN <<>> ELSE [i \in 1..n |-> x]

\* bytes.decode('utf-8'): the text, or UnicodeDecodeError
RECURSIVE utf8_decode(_)
utf8_decode(b) ==
    IF b = <<>> THEN [error |-> "none", text |-> <<>>]
    ELSE IF b[1] < 128
      THEN LET r == utf8_decode(Tail(b)) IN
           [error |-> r.error,
            text |-> IF r.error = "none" THEN <<b[1]>> \o r.text ELSE <<>>]
    ELSE IF /\ b[1] >= 194 /\ b[1] < 224
            /\ Len(b) >= 2 /\ b[2] >= 128 /\ b[2] < 192
      THEN LET r == utf8_decode(SubSeq(b, 3, Len(b))) IN
           [error |-> r.error,
            text |-> IF r.error = "none"
                       THEN <<(b[1] - 192) * 64 + (b[2] - 128)>> \o r.text ELSE <<>>]
    ELSE [error |-> "UnicodeDecodeError", text |-> <<>>]

\* The cipher of the cryptography package, by its contract: the ciphertext
\* is as long as the data and is followed by a 16-byte tag; both depend on
\* the key, the IV and the data, and a tag that does not fit is refused.
KeyStream(k, iv, i) == (k.id * 31 + SumOf(iv) * 7 + i * 13) % 256

Tag(k, iv, ct) ==
    [j \in 1..AES_TAG_SIZE |->
        (k.id * 17 + SumOf(iv) + SumOf(ct) * 3 + Len(ct) + j * 29) % 256]

\* AESGCM(key).encrypt(iv, data, None)
AESGCM_encrypt(k, iv, data) ==
    LET ct == IF data = <<>> THEN <<>>
              ELSE [i \in 1..Len(data) |-> (data[i] + KeyStream(k, iv, i)) % 256]
    IN  ct \o Tag(k, iv, ct)

\* AESGCM(key).decrypt(iv, encrypted, None): the data, or InvalidTag
AESGCM_decrypt(k, iv, encrypted) ==
    LET n == Len(encrypted) - AES_TAG_SIZE
        ct == SubSeq(encrypted, 1, n)
        tag == SubSeq(encrypted, n + 1, Len(encrypted))
    IN  IF tag # Tag(k, iv, ct)
          THEN [error |-> "InvalidTag", data |-> <<>>]
          ELSE [error |-> "none",
                data |-> IF n = 0 THEN <<>>
                         ELSE [i \in 1..n |-> (ct[i] + 256 - KeyStream(k, iv, i)) % 256]]

\* the character of a 6-bit value in the standard Base64 alphabet
B64Char(v) ==
    IF v < 26 THEN 65 + v
    ELSE IF v < 52 THEN 97 + (v - 26)
    ELSE IF v < 62 THEN 48 + (v - 52)
    ELSE IF v = 62 THEN 43 ELSE 47

\* the 6-bit value of a character, 64 for a character outside the alphabet
B64Value(ch) ==
    IF ch >= 65 /\ ch <= 90 THEN ch - 65
    ELSE IF ch >= 97 /\ ch <= 122 THEN ch - 71
    ELSE IF ch >= 48 /\ ch <= 57 THEN ch + 4
    ELSE IF ch = 43 THEN 62
    ELSE IF ch = 47 THEN 63 ELSE 64

\* a Base64 encoder that leaves the padding out
RECURSIVE b64encode_unpadded(_)
b64encode_unpadded(b) ==
    IF b = <<>> THEN <<>>
    ELSE IF Len(b) = 1
      THEN <<B64Char(b[1] \div 4), B64Char((b[1] % 4) * 16)>>
    ELSE IF Len(b) = 2
      THEN <<B64Char(b[1] \div 4), B64Char((b[1] % 4) * 16 + (b[2] \div 16)),
             B64Char((b[2] % 16) * 4)>>
    ELSE <<B64Char(b[1] \div 4), B64Char((b[1] % 4) * 16 + (b[2] \div 16)),
           B64Char((b[2] % 16) * 4 + (b[3] \div 64)), B64Char(b[3] % 64)>>
         \o b64encode_unpadded(SubSeq(b, 4, Len(b)))

\* base64.b64encode(b).decode('ascii'): padded, no line breaks
RECURSIVE b64encode(_)
b64encode(b) ==
    IF b = <<>> THEN <<>>
    ELSE IF Len(b) = 1
      THEN <<B64Char(b[1] \div 4), B64Char((b[1] % 4) * 16), PAD, PAD>>
    ELSE IF Len(b) = 2
      THEN <<B64Char(b[1] \div 4), B64Char((b[1] % 4) * 16 + (b[2] \div 16)),
             B64Char((b[2] % 16) * 4), PAD>>
    ELSE <<B64Char(b[1] \div 4), B64Char((b[1] % 4) * 16 + (b[2] \div 16)),
           B64Char((b[2] % 16) * 4 + (b[3] \div 64)), B64Char(b[3] % 64)>>
         \o b64encode(SubSeq(b, 4, Len(b)))

\* binascii.a2b_base64 as b64decode calls it (not strict): characters
\* outside the alphabet are skipped, a completed padding ends the input, and
\* an unfinished group of characters is binascii.Error.
RECURSIVE a2b_base64(_, _, _, _, _)
a2b_base64(s, quad_pos, leftchar, pads, out) ==
    IF s = <<>>
      THEN IF quad_pos = 0 THEN [error |-> "none", bytes |-> out]
                           ELSE [error |-> "binascii.Error", bytes |-> <<>>]
    ELSE LET ch == Head(s)
             v == B64Value(ch)
         IN  IF ch = PAD
               THEN IF quad_pos >= 2 /\ quad_pos + pads + 1 >= 4
                      THEN [error |-> "none", bytes |-> out]
                      ELSE a2b_base64(Tail(s), quad_pos, leftchar,
                                      IF quad_pos >= 2 THEN pads + 1 ELSE pads, out)
             ELSE IF v >= 64
               THEN a2b_base64(Tail(s), quad_pos, leftchar, pads, out)
             ELSE IF quad_pos = 0
               THEN a2b_base64(Tail(s), 1, v, 0, out)
             ELSE IF quad_pos = 1
               THEN a2b_base64(Tail(s), 2, v % 16, 0,
                               Append(out, leftchar * 4 + (v \div 16)))
             ELSE IF quad_pos = 2
               THEN a2b_base64(Tail(s), 3, v % 4, 0,
                               Append(out, leftchar * 16 + (v \div 4)))
             ELSE a2b_base64(Tail(s), 0, 0, 0, Append(out, leftchar * 64 + v))

\* base64.b64decode(s) of a str: a character that is not ASCII is ValueError
b64decode(s) ==
    IF \E i \in 1..Len(s) : s[i] >= 128
      THEN [error |-> "ValueError", bytes |-> <<>>]
      ELSE a2b_base64(s, 0, 0, 0, <<>>)

\* add_padding of decrypt_from_transmission
add_padding(s) ==
    IF Len(s) % 4 # 0 THEN s \o Repeat(PAD, 4 - (Len(s) % 4)) ELSE s

\* encrypt(data) with the IV secrets.token_bytes gave: the sealed bytes
encrypt(k, iv, data) ==
    IF ~Truthy(k) THEN [error |-> EncryptionError, encrypted |-> <<>>]
    ELSE [error |-> "none", encrypted |-> AESGCM_encrypt(k, iv, utf8_encode(data))]

\* decrypt(iv, encrypted): the text, or DecryptionError
decrypt(k, iv, encrypted) ==
    IF ~Truthy(k) \/ Len(iv) # AES_IV_SIZE \/ Len(encrypted) < AES_TAG_SIZE
      THEN [error |-> DecryptionError, text |-> <<>>]
    ELSE LET d == AESGCM_decrypt(k, iv, encrypted) IN
         IF d.error # "none" THEN [error |-> DecryptionError, text |-> <<>>]
         ELSE LET t == utf8_decode(d.data) IN
              IF t.error # "none" THEN [error |-> DecryptionError, text |-> <<>>]
              ELSE [error |-> "none", text |-> t.text]

\* encrypt_for_transmission(data): "{ivBase64}|{encryptedBase64}"
encrypt_for_transmission(k, iv, data) ==
    LET r == encrypt(k, iv, data) IN
    IF r.error # "none" THEN [error |-> r.error, message |-> <<>>]
    ELSE [error |-> "none",
          message |-> b64encode(iv) \o <<PIPE>> \o b64encode(r.encrypted)]

\* positions of '|' in a text
Pipes(m) == {i \in 1..Len(m) : m[i] = PIPE}

\* message.split("|", 1) of a text that holds a '|'
SplitFirst(m) ==
    LET k == CHOOSE i \in Pipes(m) : \A j \in Pipes(m) : i <= j IN
    <<SubSeq(m, 1, k - 1), SubSeq(m, k + 1, Len(m))>>

\* decrypt_from_transmission(message) of a str, character by character:
\* the text, or the exception that leaves the method; decrypted tells
\* whether decrypt() was called.
DecryptFromTransmission(k, m) ==
    LET fail(e) == [error |-> e, text |-> <<>>, decrypted |-> FALSE] IN
    IF Pipes(m) = {} THEN fail(InvalidMessageFormatError)
    ELSE LET parts == SplitFirst(m)
             iv_b64 == parts[1]
             encrypted_b64 == parts[2]
         IN  IF iv_b64 = <<>> \/ encrypted_b64 = <<>>
               THEN fail(InvalidMessageFormatError)
             ELSE LET iv == b64decode(add_padding(iv_b64)) IN
                  IF iv.error = "binascii.Error" THEN fail(InvalidMessageFormatError)
                  ELSE IF iv.error # "none" THEN fail(DecryptionError)
                  ELSE LET encrypted == b64decode(add_padding(encrypted_b64)) IN
                       IF encrypted.error = "binascii.Error"
                         THEN fail(InvalidMessageFormatError)
                       ELSE IF encrypted.error # "none" THEN fail(DecryptionError)
                       ELSE IF Len(iv.bytes) # AES_IV_SIZE
                         THEN fail(InvalidMessageFormatError)
                       ELSE LET r == decrypt(k, iv.bytes, encrypted.bytes) IN
                            [error |-> r.error, text |-> r.text, decrypted |-> TRUE]

\* texts of at most MaxLen characters: a letter, the separator itself and a
\* character that takes two bytes
MaxLen == 3
CodePoints == {97, PIPE, 233}
Texts == {<<>>} \cup UNION {[1..n -> CodePoints] : n \in 1..MaxLen}

\* the IVs secrets.token_bytes may give
NumIVs == 2
WireIV(n) == [i \in 1..AES_IV_SIZE |-> (n * 37 + i * 11) % 256]
WireKeys == {PSK, Key(1, AES_KEY_SIZE)}

\* what may happen to a frame between the two ends
Tampers == {"unpadded", "no_pipe", "empty_iv", "empty_data", "short_iv", "odd_iv",
            "bad_iv", "second_pipe", "non_ascii", "short_iv_non_ascii", "flipped",
            "truncated"}

Tampered(m, v) ==
    LET iv_b64 == SplitFirst(m)[1]
        encrypted_b64 == SplitFirst(m)[2]
    IN  CASE v = "unpadded" -> SelectSeq(m, LAMBDA ch : ch # PAD)
          [] v = "no_pipe" -> iv_b64 \o encrypted_b64
          [] v = "empty_iv" -> <<PIPE>> \o encrypted_b64
          [] v = "empty_data" -> iv_b64 \o <<PIPE>>
          [] v = "short_iv" -> SubSeq(iv_b64, 5, Len(iv_b64)) \o <<PIPE>> \o encrypted_b64
          [] v = "odd_iv" -> SubSeq(iv_b64, 1, Len(iv_b64) - 1) \o <<PIPE>> \o encrypted_b64
          [] v = "bad_iv" -> SubSeq(iv_b64, 1, Len(iv_b64) - 3) \o <<PIPE>> \o encrypted_b64
          [] v = "second_pipe" -> iv_b64 \o <<PIPE>> \o SubSeq(encrypted_b64, 1, 4) \o <<PIPE>>
                                    \o SubSeq(encrypted_b64, 5, Len(encrypted_b64))
          [] v = "non_ascii" -> m \o <<233>>
          [] v = "short_iv_non_ascii" ->
               SubSeq(iv_b64, 5, Len(iv_b64)) \o <<PIPE>> \o encrypted_b64 \o <<233>>
          [] v = "flipped" ->
               iv_b64 \o <<PIPE>> \o <<IF encrypted_b64[1] = 65 THEN 66 ELSE 65>>
                      \o Tail(encrypted_b64)
          [] v = "truncated" -> iv_b64 \o <<PIPE>> \o SubSeq(encrypted_b64, 1, 4)

\* an EncryptionManager with its key, a text to send and the IV it will draw
InitWire ==
    /\ pre_shared_key = None
    /\ on_clipboard_received = FALSE
    /\ running = FALSE
    /\ now = 0
    /\ connections = {}
    /\ connection_state = [c \in Conns |-> NewState(0)]
    /\ handler = [c \in Conns |-> "idle"]
    /\ sock = [c \in Conns |-> "closed"]
    /\ stats = [total_connections |-> 0, active_connections |-> 0,
                messages_sent |-> 0, messages_received |-> 0, errors |-> 0]
    /\ ping_task = [pc |-> "new", dead |-> <<>>]
    /\ health_check_task = [pc |-> "new"]
    /\ loop_calls = [queue |-> <<>>, handed |-> 0, done |-> 0]
    /\ clipboard_monitor = ClipboardMonitor
    /\ \E k \in WireKeys : \E n \in 1..NumIVs : \E t \in Texts :
          ev = [op |-> "input", key |-> k, iv |-> WireIV(n), data |-> t,
                message |-> <<>>, tamper |-> "none", dkey |-> None,
                error |-> "none", text |-> <<>>, decrypted |-> FALSE]

\* the sender calls encrypt_for_transmission(data)
Seal ==
    /\ ev.op = "input"
    /\ LET r == encrypt_for_transmission(ev.key, ev.iv, ev.data) IN
       ev' = [ev EXCEPT !.op = "encrypt_for_transmission",
                        !.message = r.message, !.error = r.error]
    /\ UNCHANGED <<clipboard_monitor, loop_calls, health_check_task, pre_shared_key, on_clipboard_received, running, now, connections,
                   connection_state, handler, sock, stats, ping_task>>

\* the frame is changed on its way
Transit(v) ==
    /\ ev.op = "encrypt_for_transmission"
    /\ ev' = [ev EXCEPT !.op = "transit", !.tamper = v,
                        !.message = Tampered(ev.message, v)]
    /\ UNCHANGED <<clipboard_monitor, loop_calls, health_check_task, pre_shared_key, on_clipboard_received, running, now, connections,
                   connection_state, handler, sock, stats, ping_task>>

\* the receiver, holding key k, calls decrypt_from_transmission(message)
Open(k) ==
    /\ ev.op \in {"encrypt_for_transmission", "transit"}
    /\ LET r == DecryptFromTransmission(k, ev.message) IN
       ev' = [ev EXCEPT !.op = "decrypt_from_transmission", !.dkey = k,
                        !.error = r.error, !.text = r.text, !.decrypted = r.decrypted]
    /\ UNCHANGED <<clipboard_monitor, loop_calls, health_check_task, pre_shared_key, on_clipboard_received, running, now, connections,
                   connection_state, handler, sock, stats, ping_task>>

NextWire ==
    \/ Seal
    \/ \E v \in Tampers : Transit(v)
    \/ \E k \in WireKeys : Open(k)

SpecWire == InitWire /\ [][NextWire]_vars

\* ------------------------------------------------------------ the JSON form
\* ClipboardItem.to_json / from_json.  The object's text is kept as its
\* members in order, each a key and the text of its value as json.dumps
\* writes it between the separators ',' and ':'.  None is <<-1>> where a
\* str may stand.
NoneStr == <<-1>>

\* '{0:04x}'.format(n)
Hex4(n) ==
    <<HexDigit(n \div 4096), HexDigit((n \div 256) % 16),
      HexDigit((n \div 16) % 16), HexDigit(n % 16)>>

\* an encoder that writes every character as it is
json_escape_nothing(cp) == <<cp>>

\* json.encoder with ensure_ascii: what stands for one character of a str
\* (code points below 65536)
json_escape(cp) ==
    CASE cp = 34 -> <<92, 34>>
      [] cp = 92 -> <<92, 92>>
      [] cp = 10 -> <<92, 110>>
      [] cp = 13 -> <<92, 114>>
      [] cp = 9 -> <<92, 116>>
      [] cp = 8 -> <<92, 98>>
      [] cp = 12 -> <<92, 102>>
      [] cp < 32 \/ cp > 126 -> <<92, 117>> \o Hex4(cp)
      [] OTHER -> <<cp>>

\* the encoder copies the characters that stand for themselves in one
\* piece, up to the next one that is replaced
RECURSIVE json_escape_all(_)
json_escape_all(t) ==
    LET replaced == {i \in 1..Len(t) : json_escape(t[i]) # <<t[i]>>} IN
    IF replaced = {} THEN t
    ELSE LET k == Min(replaced) IN
         SubSeq(t, 1, k - 1) \o json_escape(t[k])
            \o json_escape_all(SubSeq(t, k + 1, Len(t)))

\* str(n) of a number that is not negative
RECURSIVE DecimalDigits(_)
DecimalDigits(n) ==
    IF n < 10 THEN <<48 + n>> ELSE Append(DecimalDigits(n \div 10), 48 + (n % 10))

\* json.dumps of a member's value
dumps_str(t) == IF t = NoneStr THEN <<110, 117, 108, 108>>
                ELSE <<34>> \o json_escape_all(t) \o <<34>>
dumps_int(n) == DecimalDigits(n)
dumps_bool(b) == IF b THEN <<116, 114, 117, 101>> ELSE <<102, 97, 108, 115, 101>>

\* the value of a hexadecimal digit, -1 for another character
HexValue(ch) ==
    CASE ch >= 48 /\ ch <= 57 -> ch - 48
      [] ch >= 97 /\ ch <= 102 -> ch - 87
      [] ch >= 65 /\ ch <= 70 -> ch - 55
      [] OTHER -> -1

\* the character a two-character escape stands for, -1 for an invalid one
Unescaped(ch) ==
    CASE ch = 34 -> 34
      [] ch = 92 -> 92
      [] ch = 47 -> 47
      [] ch = 98 -> 8
      [] ch = 102 -> 12
      [] ch = 110 -> 10
      [] ch = 114 -> 13
      [] ch = 116 -> 9
      [] OTHER -> -1

JSONDecodeError == "JSONDecodeError"

\* json.decoder.scanstring from behind the opening quote: the str and the
\* text after the closing quote, or the error.  The scanner takes the text
\* up to the next '"', '\' or control character in one piece.
RECURSIVE scanstring(_)
scanstring(s) ==
    LET bad == [error |-> JSONDecodeError, value |-> <<>>, rest |-> <<>>]
        cons(chunk, r) == IF r.error # "none" THEN bad
                          ELSE [error |-> "none", value |-> chunk \o r.value,
                                rest |-> r.rest]
        stops == {i \in 1..Len(s) : s[i] = 34 \/ s[i] = 92 \/ s[i] < 32}
    IN  IF stops = {} THEN bad
        ELSE LET k == Min(stops)
                 chunk == SubSeq(s, 1, k - 1)
                 t == SubSeq(s, k, Len(s))
             IN  CASE t[1] = 34 -> [error |-> "none", value |-> chunk, rest |-> Tail(t)]
                   [] t[1] < 32 -> bad
                   [] Len(t) < 2 -> bad
                   [] t[2] = 117 ->
                        IF Len(t) >= 6 /\ \A i \in 3..6 : HexValue(t[i]) >= 0
                          THEN cons(Append(chunk, HexValue(t[3]) * 4096 + HexValue(t[4]) * 256
                                                     + HexValue(t[5]) * 16 + HexValue(t[6])),
                                    scanstring(SubSeq(t, 7, Len(t))))
                          ELSE bad
                   [] Unescaped(t[2]) >= 0 ->
                        cons(Append(chunk, Unescaped(t[2])), scanstring(SubSeq(t, 3, Len(t))))
                   [] OTHER -> bad

RECURSIVE ParseDigits(_)
ParseDigits(d) ==
    IF Len(d) = 1 THEN d[1] - 48
    ELSE ParseDigits(SubSeq(d, 1, Len(d) - 1)) * 10 + (d[Len(d)] - 48)

\* json.loads of a member's value: its kind and what it is
loads_value(v) ==
    CASE v = <<110, 117, 108, 108>> -> [error |-> "none", kind |-> "null", str |-> NoneStr,
                                        int |-> 0, bool |-> FALSE]
      [] v = <<116, 114, 117, 101>> -> [error |-> "none", kind |-> "bool", str |-> NoneStr,
                                        int |-> 0, bool |-> TRUE]
      [] v = <<102, 97, 108, 115, 101>> -> [error |-> "none", kind |-> "bool", str |-> NoneStr,
                                            int |-> 0, bool |-> FALSE]
      [] v # <<>> /\ v[1] = 34 ->
           LET r == scanstring(Tail(v)) IN
           IF r.error = "none" /\ r.rest = <<>>
             THEN [error |-> "none", kind |-> "str", str |-> r.value, int |-> 0, bool |-> FALSE]
             ELSE [error |-> JSONDecodeError, kind |-> "none", str |-> NoneStr,
                   int |-> 0, bool |-> FALSE]
      [] v # <<>> /\ (\A i \in 1..Len(v) : v[i] >= 48 /\ v[i] <= 57)
              /\ (Len(v) = 1 \/ v[1] # 48) ->
           [error |-> "none", kind |-> "int", str |-> NoneStr, int |-> ParseDigits(v),
            bool |-> FALSE]
      [] OTHER -> [error |-> JSONDecodeError, kind |-> "none", str |-> NoneStr,
                   int |-> 0, bool |-> FALSE]

\* ClipboardItem.to_dict and json.dumps: the members in the dict's order
to_json(e) ==
    <<[key |-> "id", text |-> dumps_str(e.id)],
      [key |-> "content", text |-> dumps_str(e.content)],
      [key |-> "contentType", text |-> dumps_str(IF e.contentType = "TEXT"
                                                    THEN <<84, 69, 88, 84>> ELSE <<>>)],
      [key |-> "timestamp", text |-> dumps_int(e.timestamp)],
      [key |-> "ttl", text |-> dumps_int(e.ttl)],
      [key |-> "synced", text |-> dumps_bool(e.synced)],
      [key |-> "sourceDeviceId", text |-> dumps_str(e.sourceDeviceId)],
      [key |-> "hash", text |-> dumps_str(e.hash)]>>

\* the members with the given key
MembersOf(doc, key) == {i \in 1..Len(doc) : doc[i].key = key}

\* data[key] of the dict json.loads builds (the last member of a key wins)
Member(doc, key) ==
    loads_value(doc[CHOOSE i \in MembersOf(doc, key) : \A j \in MembersOf(doc, key) : j <= i].text)

\* ClipboardItem.from_json(json_str): the item, or the exception.  The
\* constructor takes whatever values the members hold; data.get gives None
\* for a missing sourceDeviceId.
item_from_json(doc) ==
    LET failed(x) == [error |-> x, item |-> [id |-> <<>>, content |-> <<>>,
                          contentType |-> "", timestamp |-> 0, ttl |-> 0, synced |-> FALSE,
                          sourceDeviceId |-> NoneStr, hash |-> <<>>]]
        required == {"id", "content", "contentType", "timestamp", "ttl", "synced", "hash"}
    IN  IF \E i \in 1..Len(doc) : loads_value(doc[i].text).error # "none"
          THEN failed(JSONDecodeError)
        ELSE IF \E k \in required : MembersOf(doc, k) = {}
          THEN failed("KeyError")
        ELSE [error |-> "none",
              item |-> [id |-> Member(doc, "id").str,
                        content |-> Member(doc, "content").str,
                        contentType |-> IF Member(doc, "contentType").str = <<84, 69, 88, 84>>
                                          THEN "TEXT" ELSE "",
                        timestamp |-> Member(doc, "timestamp").int,
                        ttl |-> Member(doc, "ttl").int,
                        synced |-> Member(doc, "synced").bool,
                        sourceDeviceId |-> IF MembersOf(doc, "sourceDeviceId") = {}
                                             THEN NoneStr
                                             ELSE Member(doc, "sourceDeviceId").str,
                        hash |-> Member(doc, "hash").str]]

\* the texts a clipboard may hold: a letter, '"', '\', a line feed, e-acute
JsonCodePoints == {97, 34, 92, 10, 233}
JsonTexts == {<<>>} \cup UNION {[1..n -> JsonCodePoints] : n \in 1..MaxLen}

\* a content to send, the device id given (or None), the UUID drawn and
\* the time on the clock
InitItem ==
    /\ pre_shared_key = None
    /\ on_clipboard_received = FALSE
    /\ running = FALSE
    /\ now = 0
    /\ connections = {}
    /\ connection_state = [c \in Conns |-> NewState(0)]
    /\ handler = [c \in Conns |-> "idle"]
    /\ sock = [c \in Conns |-> "closed"]
    /\ stats = [total_connections |-> 0, active_connections |-> 0,
                messages_sent |-> 0, messages_received |-> 0, errors |-> 0]
    /\ ping_task = [pc |-> "new", dead |-> <<>>]
    /\ health_check_task = [pc |-> "new"]
    /\ loop_calls = [queue |-> <<>>, handed |-> 0, done |-> 0]
    /\ clipboard_monitor = ClipboardMonitor
    /\ \E t \in JsonTexts : \E d \in {NoneStr, DeviceId} : \E n \in 0..1 :
       \E ms \in {0, MaxTime * 1000} :
          ev = [op |-> "input", content |-> t, source_device_id |-> d, uuid |-> UUID(n),
                timestamp |-> ms, item |-> create_text_item(<<>>, NoneStr, <<>>, 0),
                json |-> <<>>, error |-> "none",
                parsed |-> create_text_item(<<>>, NoneStr, <<>>, 0)]

\* ClipboardItem.create_text_item(content, source_device_id)
CreateTextItem ==
    /\ ev.op = "input"
    /\ ev' = [ev EXCEPT !.op = "create_text_item",
                        !.item = create_text_item(ev.content, ev.source_device_id,
                                                  ev.uuid, ev.timestamp)]
    /\ UNCHANGED <<clipboard_monitor, loop_calls, health_check_task, pre_shared_key, on_clipboard_received, running,
                   now, connections, connection_state, handler, sock, stats, ping_task>>

\* item.to_json()
ToJson ==
    /\ ev.op = "create_text_item"
    /\ ev' = [ev EXCEPT !.op = "to_json", !.json = to_json(ev.item)]
    /\ UNCHANGED <<clipboard_monitor, loop_calls, health_check_task, pre_shared_key, on_clipboard_received, running,
                   now, connections, connection_state, handler, sock, stats, ping_task>>

\* ClipboardItem.from_json(json_str)
FromJson ==
    /\ ev.op = "to_json"
    /\ LET r == item_from_json(ev.json) IN
       ev' = [ev EXCEPT !.op = "from_json", !.error = r.error, !.parsed = r.item]
    /\ UNCHANGED <<clipboard_monitor, loop_calls, health_check_task, pre_shared_key, on_clipboard_received, running,
                   now, connections, connection_state, handler, sock, stats, ping_task>>

NextItem ==
    \/ CreateTextItem
    \/ ToJson
    \/ FromJson

SpecItem == InitItem /\ [][NextItem]_vars

\* ------------------------------------------------------- the manager's key
\* EncryptionManager and KeyManager as objects (encryption/core).  A manager
\* is   key_manager  the KeyManager it was built on (present or not) with
\*                   the key that one holds,
\*      aesgcm       the key of the AESGCM in self._aesgcm (None: no AESGCM).
\* The KeyManager derives nothing (KeyDerivationMethod.NONE) and its key
\* does not expire.
ValueError == "ValueError"
InvalidKeyError == "InvalidKeyError"
KeyManagementError == "KeyManagementError"

NoKeyManager == [present |-> FALSE, derived_key |-> None]

\* KeyManager.set_key(key)
KeyManager_set_key(km, key) ==
    IF key.len # 32 THEN [km |-> km, error |-> InvalidKeyError]
    ELSE [km |-> [km EXCEPT !.derived_key = key], error |-> "none"]

\* KeyManager(key), for a key of 32 bytes or None
KeyManager(key) ==
    IF Truthy(key) THEN KeyManager_set_key([present |-> TRUE, derived_key |-> None], key).km
    ELSE [present |-> TRUE, derived_key |-> None]

\* KeyManager.get_key()
KeyManager_get_key(km) ==
    IF ~Truthy(km.derived_key) THEN [error |-> KeyManagementError, key |-> None]
    ELSE [error |-> "none", key |-> km.derived_key]

\* EncryptionManager._update_aesgcm()
update_aesgcm(m) ==
    IF ~m.key_manager.present THEN [m |-> m, error |-> "none"]
    ELSE LET r == KeyManager_get_key(m.key_manager) IN
         IF r.error # "none" THEN [m |-> [m EXCEPT !.aesgcm = None], error |-> EncryptionError]
         ELSE [m |-> [m EXCEPT !.aesgcm = r.key], error |-> "none"]

\* EncryptionManager.set_key(key)
set_key(m, key) ==
    IF key.len # AES_KEY_SIZE THEN [m |-> m, error |-> ValueError]
    ELSE IF m.key_manager.present
      THEN LET r == KeyManager_set_key(m.key_manager, key) IN
           [m |-> [m EXCEPT !.key_manager = r.km], error |-> r.error]
    ELSE [m |-> [m EXCEPT !.aesgcm = key], error |-> "none"]

\* EncryptionManager(key, key_manager)
NewEncryptionManager(key, km) ==
    LET m0 == [key_manager |-> km, aesgcm |-> None] IN
    IF km.present THEN update_aesgcm(m0)
    ELSE IF Truthy(key) THEN set_key(m0, key)
    ELSE [m |-> m0, error |-> "none"]

\* EncryptionManager.generate_key(), key being what secrets.token_bytes gives
generate_key(m, key) ==
    IF m.key_manager.present
      THEN LET r == KeyManager_set_key(m.key_manager, key) IN
           [m |-> [m EXCEPT !.key_manager = r.km], error |-> r.error, key |-> key]
    ELSE LET r == set_key(m, key) IN
         [m |-> r.m, error |-> r.error, key |-> key]

\* the first lines of encrypt() and of decrypt(): a manager without an
\* AESGCM asks its KeyManager for the key
EnsureAesgcm(m) ==
    IF ~Truthy(m.aesgcm) /\ m.key_manager.present THEN update_aesgcm(m)
    ELSE [m |-> m, error |-> "none"]

\* EncryptionManager.encrypt(data) with the IV secrets.token_bytes gives
EncryptionManager_encrypt(m, iv, data) ==
    LET u == EnsureAesgcm(m) IN
    IF u.error # "none" THEN [m |-> u.m, error |-> EncryptionError, encrypted |-> <<>>]
    ELSE LET r == encrypt(u.m.aesgcm, iv, data) IN
         [m |-> u.m, error |-> r.error, encrypted |-> r.encrypted]

\* EncryptionManager.decrypt(iv, encrypted)
EncryptionManager_decrypt(m, iv, encrypted) ==
    LET u == EnsureAesgcm(m) IN
    IF u.error # "none" THEN [m |-> u.m, error |-> EncryptionError, text |-> <<>>]
    ELSE LET r == decrypt(u.m.aesgcm, iv, encrypted) IN
         [m |-> u.m, error |-> r.error, text |-> r.text]

\* key changes in one run
MaxKeyChanges == 2
\* the keys secrets.token_bytes(32) may give, and one that is too short
FreshKeys == WireKeys \cup {Key(2, AES_KEY_SIZE)}
KeyInputs == FreshKeys \cup {Key(3, 16)}
KeyTexts == {<<97>>, <<233, 97>>}

\* A manager built with a key, directly or on a KeyManager that holds it.
\* held: the key of the last set_key or generate_key that returned (at
\* first the key of the construction); before: the key held until then.
InitKeys ==
    /\ pre_shared_key = None
    /\ on_clipboard_received = FALSE
    /\ running = FALSE
    /\ now = 0
    /\ connections = {}
    /\ connection_state = [c \in Conns |-> NewState(0)]
    /\ handler = [c \in Conns |-> "idle"]
    /\ sock = [c \in Conns |-> "closed"]
    /\ stats = [total_connections |-> 0, active_connections |-> 0,
                messages_sent |-> 0, messages_received |-> 0, errors |-> 0]
    /\ ping_task = [pc |-> "new", dead |-> <<>>]
    /\ health_check_task = [pc |-> "new"]
    /\ loop_calls = [queue |-> <<>>, handed |-> 0, done |-> 0]
    /\ clipboard_monitor = ClipboardMonitor
    /\ \E k \in WireKeys : \E km \in {NoKeyManager, KeyManager(k)} :
          ev = [op |-> "init", m |-> NewEncryptionManager(k, km).m,
                held |-> k, before |-> None, changes |-> 0,
                iv |-> <<>>, data |-> <<>>, encrypted |-> <<>>,
                error |-> "none", text |-> <<>>]

\* what a call that changed the key, or raised, leaves
KeyChanged(op, r, key) ==
    IF r.error # "none" THEN [ev EXCEPT !.op = op, !.m = r.m, !.error = r.error]
    ELSE [ev EXCEPT !.op = op, !.m = r.m, !.error = "none",
                    !.before = ev.held, !.held = key, !.changes = @ + 1]

\* manager.set_key(k)
SetKey(k) ==
    /\ ev.changes < MaxKeyChanges
    /\ ev' = KeyChanged("set_key", set_key(ev.m, k), k)
    /\ UNCHANGED <<clipboard_monitor, loop_calls, health_check_task, pre_shared_key, on_clipboard_received, running, now, connections,
                   connection_state, handler, sock, stats, ping_task>>

\* manager.generate_key() draws k
GenerateKey(k) ==
    /\ ev.changes < MaxKeyChanges
    /\ ev' = KeyChanged("generate_key", generate_key(ev.m, k), k)
    /\ UNCHANGED <<clipboard_monitor, loop_calls, health_check_task, pre_shared_key, on_clipboard_received, running, now, connections,
                   connection_state, handler, sock, stats, ping_task>>

\* manager.encrypt(data)
Encrypt(iv, data) ==
    /\ LET r == EncryptionManager_encrypt(ev.m, iv, data) IN
       ev' = [ev EXCEPT !.op = "encrypt", !.m = r.m, !.iv = iv, !.data = data,
                        !.encrypted = r.encrypted, !.error = r.error, !.text = <<>>]
    /\ UNCHANGED <<clipboard_monitor, loop_calls, health_check_task, pre_shared_key, on_clipboard_received, running, now, connections,
                   connection_state, handler, sock, stats, ping_task>>

\* manager.decrypt(iv, encrypted) of what a peer sealed under the key the
\* manager was last given
Decrypt(iv, data) ==
    /\ LET sealed == AESGCM_encrypt(ev.held, iv, utf8_encode(data))
           r == EncryptionManager_decrypt(ev.m, iv, sealed)
       IN  ev' = [ev EXCEPT !.op = "decrypt", !.m = r.m, !.iv = iv, !.data = data,
                            !.encrypted = sealed, !.error = r.error, !.text = r.text]
    /\ UNCHANGED <<clipboard_monitor, loop_calls, health_check_task, pre_shared_key, on_clipboard_received, running, now, connections,
                   connection_state, handler, sock, stats, ping_task>>

NextKeys ==
    \/ \E k \in KeyInputs : SetKey(k)
    \/ \E k \in FreshKeys : GenerateKey(k)
    \/ \E n \in 1..NumIVs : \E t \in KeyTexts : Encrypt(WireIV(n), t)
    \/ \E n \in 1..NumIVs : \E t \in KeyTexts : Decrypt(WireIV(n), t)

SpecKeys == InitKeys /\ [][NextKeys]_vars

\* ------------------------------------------------------------------ claims
\* sockets with a write of the given kind in the step record e
WrittenTo(e, kind, ok) ==
    {e.io[i].to : i \in {j \in 1..Len(e.io) : e.io[j].kind = kind /\ e.io[j].ok = ok}}

\* C1: a broadcast over a live set of Ready connections in which exactly
\* one connection's transport write throws returns the number of the other
\* connections, has removed the failing connection from the live set when it
\* returns, and leaves every other connection in the live set with its
\* frame written.
C1_BroadcastRemovesFailing ==
    [][(/\ ev'.op = "broadcast"
        /\ Cardinality(connections) >= 2
        /\ \A c \in connections : connection_state[c].key_exchanged
        /\ Cardinality(WrittenTo(ev', "clipboard", FALSE)) = 1)
       => LET bad == CHOOSE c \in WrittenTo(ev', "clipboard", FALSE) : TRUE IN
          /\ ev'.ret = Cardinality(connections) - 1
          /\ bad \notin connections'
          /\ \A c \in connections \ {bad} :
                c \in connections' /\ c \in WrittenTo(ev', "clipboard", TRUE)]_vars

\* C2: on a Ready connection of the live set, a frame that is no control
\* message and fails decryption or envelope parsing adds exactly one to the
\* error counter, has exactly one error_report "decryption_failed" attempted
\* (whether or not that write goes out), leaves the connection Ready, in
\* the live set and its handler in the message loop with the socket as it
\* was, and counts no message received; a valid frame delivered to a
\* handler in the message loop is counted as received.
C2_BadFrameKeepsConnection ==
    [][\A c \in connections :
        (/\ ev'.op = "message" /\ ev'.conn = c
         /\ handler[c] = "loop"
         /\ connection_state[c].key_exchanged)
        => LET f == ev'.frame
               control == ~f.pipe /\ f.json = "object" /\ f.type # "none"
               valid == /\ f.pipe /\ f.iv = 12 /\ f.sealed >= 16
                        /\ f.key = connection_state[c].encryption
                        /\ f.plain = "envelope"
           IN  /\ (~control /\ ~valid) =>
                    /\ stats'.errors = stats.errors + 1
                    /\ ev'.io = <<[to |-> c, kind |-> "error_report",
                                   detail |-> "decryption_failed",
                                   ok |-> sock[c] = "open"]>>
                    /\ connections' = connections
                    /\ sock' = sock
                    /\ handler'[c] = "loop"
                    /\ connection_state'[c].key_exchanged
                    /\ connection_state'[c].encryption = connection_state[c].encryption
                    /\ connection_state'[c].messages_received
                          = connection_state[c].messages_received
                    /\ stats'.messages_received = stats.messages_received
               /\ (~control /\ valid) =>
                    /\ connection_state'[c].messages_received
                          = connection_state[c].messages_received + 1
                    /\ stats'.errors = stats.errors]_vars

\* C2 witness: a valid envelope has just been received on a connection that
\* had a bad frame before (the socket never failed a write) and is still live.
C2_Witness ==
    /\ ev.op = "message" /\ ev.conn = 1
    /\ ev.log[1].msg = "received"
    /\ stats.errors >= 1
    /\ sock[1] = "open"
    /\ 1 \in connections
    /\ connection_state[1].key_exchanged

\* the sockets on a dead list
Range(q) == {q[i] : i \in 1..Len(q)}

\* C3: at every liveness-probe tick a Ready connection is closed and
\* removed from the live set if and only if both its timestamps are more
\* than 90 s old or the ping sent to it in that tick fails: the tick puts
\* exactly those connections on its dead list and pings each other
\* connection once, removes nothing else, and when the tick is over every
\* connection of its dead list is closed and out of the live set.
C3_ProbeEvictsExactlyTheDead ==
    [][/\ ev'.op = "ping_tick" =>
            /\ \A c \in {r \in connections : connection_state[r].key_exchanged} :
                  LET st == connection_state[c]
                      stale == now - st.last_pong > 90 /\ now - st.last_activity > 90
                  IN  /\ c \in Range(ping_task'.dead)
                            <=> (stale \/ c \in WrittenTo(ev', "ping", FALSE))
                      /\ ~stale <=> Cardinality({i \in 1..Len(ev'.io) :
                                        ev'.io[i].to = c /\ ev'.io[i].kind = "ping"}) = 1
                      /\ stale <=> Cardinality({i \in 1..Len(ev'.io) :
                                        ev'.io[i].to = c /\ ev'.io[i].kind = "ping"}) = 0
            /\ connections' = connections
       /\ ev'.op = "ping_closed" =>
            connections \ connections' \subseteq {Head(ping_task.dead)}
       /\ (ev'.op \in {"ping_tick", "ping_closed"} /\ ping_task'.pc \in {"sleep", "backoff"}) =>
            \A c \in {r \in Range(ping_task.dead) : connection_state[r].key_exchanged} :
               c \notin connections' /\ sock'[c] = "closed"]_vars

\* C4: on a Ready connection every inbound frame of any kind, the peer's
\* pong to a probe ping included, sets both lastPong and lastActivity to the
\* current time (so a peer that answers every ping is never found stale).
C4_AnyInboundFrameRefreshes ==
    [][(ev'.op \in {"message", "pong"} /\ connection_state[ev'.conn].key_exchanged)
       => /\ connection_state'[ev'.conn].last_pong = now
          /\ connection_state'[ev'.conn].last_activity = now]_vars

\* C5: at every health-classifier tick, for every connection of the live
\* set, with pongStale = now - lastPong > 90 and activityStale =
\* now - lastActivity > 120: both stale gives healthy = false, neither stale
\* gives healthy = true, exactly one stale leaves healthy as it was.
C5_HealthHysteresis ==
    [][ev'.op = "health_tick" =>
        \A c \in connections :
           LET st == connection_state[c]
               pongStale == now - st.last_pong > 90
               activityStale == now - st.last_activity > 120
               after == connection_state'[c].connection_healthy
           IN  /\ (pongStale /\ activityStale) => ~after
               /\ (~pongStale /\ ~activityStale) => after
               /\ (pongStale # activityStale) => after = st.connection_healthy]_vars

\* C5 witness: the classifier has just run over a live connection whose
\* lastPong is more than 90 s old while its lastActivity is recent, and the
\* connection is healthy.
C5_Witness ==
    /\ ev.op = "health_tick"
    /\ \E c \in connections :
          /\ now - connection_state[c].last_pong > 90
          /\ now - connection_state[c].last_activity <= 30
          /\ connection_state[c].connection_healthy

\* C6: a health-classifier tick closes no socket and leaves the live set,
\* the handlers, the counters and the probe as they were; in every
\* connection's state it changes at most the healthy flag.
C6_ClassifierOnlySetsHealthy ==
    [][ev'.op = "health_tick" =>
        /\ connections' = connections
        /\ sock' = sock
        /\ handler' = handler
        /\ stats' = stats
        /\ ping_task' = ping_task
        /\ now' = now
        /\ \A c \in Conns :
              connection_state'[c] =
                 [connection_state[c] EXCEPT !.connection_healthy =
                     connection_state'[c].connection_healthy]]_vars

\* C6 witness: the classifier has just marked a live connection unhealthy;
\* its socket is open and its handler is in the message loop.
C6_Witness ==
    /\ ev.op = "health_tick"
    /\ \E c \in connections :
          /\ \E i \in 1..Len(ev.log) :
                ev.log[i] = Log("warning", "marked_unhealthy", c)
          /\ ~connection_state[c].connection_healthy
          /\ sock[c] = "open"
          /\ handler[c] = "loop"

\* C7: a connection whose lastPong and lastActivity are both more than
\* 120 s old is turned unhealthy with exactly one log event for the
\* transition, and on the following classifier tick, both signals still
\* stale, it stays unhealthy and no warning is logged about it.
C7_UnhealthyLoggedOnce ==
    [][ev'.op = "health_tick" =>
        \A c \in connections :
           LET st == connection_state[c]
               warnings == {i \in 1..Len(ev'.log) :
                               ev'.log[i].conn = c /\ ev'.log[i].level = "warning"}
               marked == {i \in 1..Len(ev'.log) :
                               ev'.log[i] = Log("warning", "marked_unhealthy", c)}
           IN  (now - st.last_pong > 120 /\ now - st.last_activity > 120) =>
                  /\ ~connection_state'[c].connection_healthy
                  /\ st.connection_healthy => Cardinality(marked) = 1
                  /\ (ev.op = "health_tick" /\ ~st.connection_healthy) => warnings = {}]_vars

\* C8: in RSA mode, when the first frame, received within 10 s of accept,
\* is a key_exchange message whose encrypted_key decrypts to a 32-byte key,
\* that key becomes the connection's cipher context, the live set is left
\* as it is and the next thing the handler does is write
\* {"type":"key_exchange_ack","status":"ok"}; once
\* the transport has taken that write the connection is Ready, in the
\* message loop and in the live set, with the same cipher context.
C8_ValidKeyExchangeMakesReady ==
    [][/\ (/\ ev'.op = "key_exchange"
           /\ ev'.frame.json = "object"
           /\ ev'.frame.type = "key_exchange"
           /\ ev'.frame.ek = "key"
           /\ ev'.frame.key.len = 32)
          => /\ pre_shared_key = None
             /\ now - connection_state[ev'.conn].connected_at < 10
             /\ connection_state'[ev'.conn].encryption = ev'.frame.key
             /\ connection_state'[ev'.conn].key_exchanged
             /\ connections' = connections
             /\ handler'[ev'.conn] = "ack"
       /\ ev'.op = "key_exchange_ack"
          => /\ Len(ev'.io) >= 1
             /\ ev'.io[1].to = ev'.conn
             /\ ev'.io[1].kind = "key_exchange_ack"
             /\ ev'.io[1].detail = "ok"
             /\ ev'.io[1].ok
                  => /\ connection_state'[ev'.conn].key_exchanged
                     /\ connection_state'[ev'.conn].encryption
                           = connection_state[ev'.conn].encryption
                     /\ connection_state'[ev'.conn].encryption.len = 32
                     /\ handler'[ev'.conn] = "loop"
                     /\ ev'.conn \in connections']_vars

\* C8 witness: in RSA mode the ack with status ok has just gone out to a
\* connection; it is Ready with the key its peer sent, in the message loop
\* and in the live set.
C8_Witness ==
    /\ pre_shared_key = None
    /\ ev.op = "key_exchange_ack"
    /\ ev.io[1].ok
    /\ ev.io[1].detail = "ok"
    /\ connection_state[ev.conn].key_exchanged
    /\ connection_state[ev.conn].encryption = Key(ev.conn, 32)
    /\ handler[ev.conn] = "loop"
    /\ ev.conn \in connections

\* C9: in RSA mode a connection is Ready only with a cipher context whose
\* key is exactly 32 bytes long; a key_exchange message whose key decrypts
\* to any other length installs no cipher context, ends the handler and
\* removes the connection from the live set, and a connection whose
\* handler has ended never becomes Ready.
C9_OnlyA32ByteKeyMakesReady ==
    [][/\ \A c \in Conns :
             /\ (pre_shared_key = None /\ connection_state'[c].key_exchanged)
                   => connection_state'[c].encryption.len = 32
             /\ (handler[c] = "done" /\ ~connection_state[c].key_exchanged)
                   => ~connection_state'[c].key_exchanged
       /\ (/\ ev'.op = "key_exchange"
           /\ ev'.frame.json = "object"
           /\ ev'.frame.type = "key_exchange"
           /\ ev'.frame.ek = "key"
           /\ ev'.frame.key.len # 32)
          => /\ connection_state'[ev'.conn].encryption = None
             /\ ~connection_state'[ev'.conn].key_exchanged
             /\ handler'[ev'.conn] = "done"
             /\ ev'.conn \notin connections']_vars

\* C9 witness: a peer's key_exchange message has just yielded a 33-byte
\* key; the connection has no cipher context, is not Ready and is out of
\* the live set.
C9_Witness ==
    /\ ev.op = "key_exchange"
    /\ ev.frame.type = "key_exchange"
    /\ ev.frame.ek = "key"
    /\ ev.frame.key.len = 33
    /\ connection_state[ev.conn].encryption = None
    /\ ~connection_state[ev.conn].key_exchanged
    /\ ev.conn \notin connections

\* the handshake of the step's connection has just failed
HandshakeFailed(e, h) ==
    /\ e.op \in {"key_exchange", "key_exchange_timeout", "key_exchange_closed",
                 "key_exchange_ack"}
    /\ h[e.conn] = "done"

\* the step attempted the error ack as its last write
ErrorAckAttempted(e) ==
    /\ Len(e.io) >= 1
    /\ e.io[Len(e.io)].to = e.conn
    /\ e.io[Len(e.io)].kind = "key_exchange_ack"
    /\ e.io[Len(e.io)].detail = "error"

IsKeyExchangeMessage(f) == f.json = "object" /\ f.type = "key_exchange"

\* C11: in RSA mode a handshake ends, the connection not Ready and out of
\* the live set, when its 10 s timer expires without a frame and when the
\* first frame is not a key_exchange message, and such a connection never
\* becomes Ready later; no first frame is taken once 10 s have passed since
\* accept, and the clock does not move on while a handshake whose 10 s are
\* over is still waiting.
C11_HandshakeEndsOnTimeoutOrWrongFrame ==
    [][/\ (\/ ev'.op = "key_exchange_timeout"
           \/ ev'.op = "key_exchange" /\ ~IsKeyExchangeMessage(ev'.frame))
          => /\ pre_shared_key = None
             /\ handler'[ev'.conn] = "done"
             /\ ~connection_state'[ev'.conn].key_exchanged
             /\ connection_state'[ev'.conn].encryption = None
             /\ ev'.conn \notin connections'
       /\ ev'.op = "key_exchange_timeout"
          => now - connection_state[ev'.conn].connected_at >= 10
       /\ ev'.op = "key_exchange"
          => now - connection_state[ev'.conn].connected_at < 10
       /\ \A c \in Conns :
             /\ (handler[c] = "done" /\ ~connection_state[c].key_exchanged)
                   => (handler'[c] = "done" /\ ~connection_state'[c].key_exchanged)
             /\ (handler[c] = "handshake" /\ now' > now)
                   => now - connection_state[c].connected_at < 10]_vars

\* C11 witness: a handshake's timer has just expired, 10 s or more after
\* accept; the connection is not Ready and out of the live set.
C11_Witness ==
    /\ ev.op = "key_exchange_timeout"
    /\ pre_shared_key = None
    /\ now - connection_state[ev.conn].connected_at >= 10
    /\ handler[ev.conn] = "done"
    /\ ~connection_state[ev.conn].key_exchanged
    /\ ev.conn \notin connections

\* C12: while a connection awaits its handshake, an inbound frame that is
\* not a key_exchange message is dropped: the server writes no frame in
\* response, and the connection stays in the live set awaiting the
\* handshake.
C12_StrayFrameDroppedInHandshake ==
    [][(/\ ev'.op = "key_exchange"
        /\ ~IsKeyExchangeMessage(ev'.frame)
        /\ ev'.conn \in connections)
       => /\ ev'.io = <<>>
          /\ handler'[ev'.conn] = "handshake"
          /\ ev'.conn \in connections'
          /\ ~connection_state'[ev'.conn].key_exchanged]_vars

\* C13: in pre-shared-key mode every accepted connection is Ready, with a
\* cipher context holding the pre-shared key and its handler in the
\* message loop, from the accept step on, so before any frame is read; no
\* step of a handshake is ever taken, no handler waits for a key_exchange
\* message and no key_exchange_ack frame is written, whatever the peer
\* sends.
C13_PreSharedKeyNeedsNoHandshake ==
    [][pre_shared_key = PSK =>
        /\ ev'.op = "accept"
           => /\ connection_state'[ev'.conn].key_exchanged
              /\ connection_state'[ev'.conn].encryption = pre_shared_key
              /\ handler'[ev'.conn] = "loop"
              /\ ev'.conn \in connections'
        /\ ev'.op = "message"
           => /\ connection_state[ev'.conn].key_exchanged
              /\ connection_state[ev'.conn].encryption = pre_shared_key
        /\ ev'.op \notin {"key_exchange", "key_exchange_ack", "key_exchange_timeout",
                          "key_exchange_closed"}
        /\ \A c \in Conns : handler'[c] \notin {"handshake", "ack"}
        /\ \A i \in 1..Len(ev'.io) : ev'.io[i].kind # "key_exchange_ack"]_vars

\* C13 witness: in pre-shared-key mode the peer of a Ready connection has
\* just sent a key_exchange message; nothing was written in response and
\* the connection is as Ready as before.
C13_Witness ==
    /\ pre_shared_key = PSK
    /\ ev.op = "message"
    /\ IsKeyExchangeMessage(ev.frame)
    /\ ev.io = <<>>
    /\ connection_state[ev.conn].key_exchanged
    /\ connection_state[ev.conn].encryption = PSK
    /\ handler[ev.conn] = "loop"
    /\ ev.conn \in connections

\* C14: a connection's state only moves forward: a Ready connection of the
\* live set never becomes one that awaits its handshake, a connection that
\* was accepted and is out of the live set never re-enters it, and no frame
\* is processed (as a message or as a handshake's first frame) on a
\* connection that is out of the live set.
C14_StateOnlyMovesForward ==
    [][\A c \in Conns :
        /\ (c \in connections /\ connection_state[c].key_exchanged)
              => ~(c \in connections' /\ ~connection_state'[c].key_exchanged)
        /\ (handler[c] # "idle" /\ c \notin connections) => c \notin connections'
        /\ (ev'.op \in {"message", "key_exchange"} /\ ev'.conn = c)
              => c \in connections]_vars

\* C15: a connection is in the live set when it has been accepted and out
\* of it once its handler has ended, whichever way the handler ended; no
\* connection whose handler has ended is in the live set.
C15_LiveSetFollowsHandler ==
    [][/\ ev'.op = "accept" => ev'.conn \in connections'
       /\ \A c \in Conns :
             /\ handler'[c] = "done" => c \notin connections'
             /\ c \in connections' => handler'[c] \in {"handshake", "ack", "loop"}
             /\ (handler[c] # "done" /\ handler'[c] = "done")
                   => ev'.op \in {"key_exchange", "key_exchange_ack",
                                  "key_exchange_timeout", "key_exchange_closed",
                                  "handler_exit"}]_vars

\* C15 witness: the handler of a Ready connection has just ended, its peer
\* gone, while another connection is live; the ended one is out of the
\* live set.
C15_Witness ==
    /\ ev.op = "handler_exit"
    /\ handler[ev.conn] = "done"
    /\ connection_state[ev.conn].key_exchanged
    /\ ev.conn \notin connections
    /\ connections # {}

\* the frame decrypts under the context and carries an envelope
ValidEnvelope(f, encryption) ==
    /\ f.pipe /\ f.iv = 12 /\ f.sealed >= 16
    /\ f.key = encryption /\ encryption.len = 32
    /\ f.plain = "envelope"

\* the step handled a frame on a connection that was Ready and live
MessageOnReady(e) ==
    /\ e.op = "message"
    /\ e.conn \in connections
    /\ handler[e.conn] = "loop"
    /\ connection_state[e.conn].key_exchanged

\* C16: on a Ready connection every text without '|' that parses as a JSON
\* object with a type member, whatever its other members, is handled as a
\* control message: nothing is written to the peer, no call is made to the
\* clipboard or the callback, and neither the error counter nor the
\* received counters change.
C16_TypedObjectIsControlMessage ==
    [][(/\ MessageOnReady(ev')
        /\ ~ev'.frame.pipe /\ ev'.frame.json = "object" /\ ev'.frame.type # "none")
       => /\ ev'.io = <<>>
          /\ ev'.calls = <<>>
          /\ stats'.errors = stats.errors
          /\ stats'.messages_received = stats.messages_received
          /\ connection_state'[ev'.conn].messages_received
                = connection_state[ev'.conn].messages_received]_vars

\* C17: on a Ready connection every text that contains '|', also one that
\* parses as a JSON object with a type member, and every text without '|'
\* that is not JSON goes to the decryption path and is never dispatched as
\* a control message: either it is a valid envelope, counted as received
\* and handed to the clipboard, or the error counter grows by one and an
\* error_report decryption_failed is attempted.
C17_PipeOrNonJsonIsDecrypted ==
    [][(/\ MessageOnReady(ev')
        /\ (ev'.frame.pipe \/ ev'.frame.json = "invalid"))
       => LET c == ev'.conn
              f == ev'.frame
          IN  /\ \A i \in 1..Len(ev'.log) : ev'.log[i].level # "debug" \/ ev'.log[i].msg # f.type
              /\ ValidEnvelope(f, connection_state[c].encryption)
                   => /\ stats'.messages_received = stats.messages_received + 1
                      /\ Len(ev'.calls) >= 1
                      /\ ev'.calls[1].fn = "write_text"
                      /\ ev'.calls[1].arg = f.content
                      /\ stats'.errors = stats.errors
              /\ ~ValidEnvelope(f, connection_state[c].encryption)
                   => /\ stats'.errors = stats.errors + 1
                      /\ stats'.messages_received = stats.messages_received
                      /\ ev'.calls = <<>>
                      /\ ev'.io = <<[to |-> c, kind |-> "error_report",
                                     detail |-> "decryption_failed",
                                     ok |-> sock[c] = "open"]>>]_vars

\* C17 witness: a text with '|' that also parses as a JSON object with a
\* type member has just been decrypted and counted as received.
C17_Witness ==
    /\ ev.op = "message"
    /\ ev.frame.pipe /\ ev.frame.json = "object" /\ ev.frame.type # "none"
    /\ Len(ev.calls) >= 1
    /\ ev.calls[1].fn = "write_text"
    /\ connection_state[ev.conn].messages_received >= 1
    /\ ev.conn \in connections

\* the calls of the step record e to the function fn
CallsTo(e, fn) == {i \in 1..Len(e.calls) : e.calls[i].fn = fn}

\* the clipboard sink was called in the step and reported success
ClipboardWritten(e) ==
    \E i \in CallsTo(e, "write_text") : e.calls[i].ok

\* C18: messagesReceived, of the connection and of the server, grows by
\* exactly one for a frame that is decrypted, parsed as an envelope and
\* written to the clipboard, and stays as it is for a frame whose
\* decryption, parsing or clipboard write fails and for a control message.
C18_ReceivedCountsWrittenEnvelopes ==
    [][MessageOnReady(ev') =>
        LET c == ev'.conn
            done == /\ ValidEnvelope(ev'.frame, connection_state[c].encryption)
                    /\ ClipboardWritten(ev')
            grown == IF done THEN 1 ELSE 0
        IN  /\ stats'.messages_received = stats.messages_received + grown
            /\ connection_state'[c].messages_received
                  = connection_state[c].messages_received + grown]_vars

\* C19: when the clipboard sink reports failure for the content of a
\* decrypted envelope, the error counter grows by one, an error_report
\* clipboard_write_failed is attempted to the peer, and the connection
\* stays Ready, in the live set and in its message loop.
C19_ClipboardFailureIsReported ==
    [][(/\ MessageOnReady(ev')
        /\ \E i \in CallsTo(ev', "write_text") : ~ev'.calls[i].ok)
       => LET c == ev'.conn IN
          /\ stats'.errors = stats.errors + 1
          /\ \E i \in 1..Len(ev'.io) :
                /\ ev'.io[i].to = c
                /\ ev'.io[i].kind = "error_report"
                /\ ev'.io[i].detail = "clipboard_write_failed"
          /\ connection_state'[c].key_exchanged
          /\ c \in connections'
          /\ handler'[c] = "loop"]_vars

\* C20: with a received-callback given, for every frame that is decrypted,
\* parsed and written to the clipboard the callback is called exactly once,
\* with the envelope's content, after the call of the clipboard sink; it is
\* not called for a frame that fails decryption or parsing nor for a
\* control message; and when the callback raises the connection stays
\* Ready, in the live set, its socket as it was and its handler in the
\* message loop.
C20_CallbackOncePerWrittenEnvelope ==
    [][(MessageOnReady(ev') /\ on_clipboard_received) =>
        LET c == ev'.conn
            f == ev'.frame
            cb == CallsTo(ev', "on_clipboard_received")
        IN  /\ (ValidEnvelope(f, connection_state[c].encryption) /\ ClipboardWritten(ev'))
                 => /\ Cardinality(cb) = 1
                    /\ \A i \in cb : /\ ev'.calls[i].arg = f.content
                                     /\ \E j \in CallsTo(ev', "write_text") : j < i
            /\ ~ValidEnvelope(f, connection_state[c].encryption) => cb = {}
            /\ (\E i \in cb : ~ev'.calls[i].ok)
                 => /\ connection_state'[c].key_exchanged
                    /\ connections' = connections
                    /\ sock' = sock
                    /\ handler'[c] = "loop"
                    /\ ev'.io = <<>>]_vars

\* C20 witness: the callback has just raised for the content of an
\* envelope that was written to the clipboard; the connection is Ready, in
\* the live set and its handler in the message loop.
C20_Witness ==
    /\ ev.op = "message"
    /\ on_clipboard_received
    /\ ClipboardWritten(ev)
    /\ \E i \in CallsTo(ev, "on_clipboard_received") :
          ~ev.calls[i].ok /\ ev.calls[i].arg = ev.frame.content
    /\ connection_state[ev.conn].key_exchanged
    /\ ev.conn \in connections
    /\ sock[ev.conn] = "open"
    /\ handler[ev.conn] = "loop"

\* the positions of the step's writes of one kind to one socket
WritesOf(e, c, kind) ==
    {i \in 1..Len(e.io) : e.io[i].to = c /\ e.io[i].kind = kind}

\* the step is a call of send_clipboard whose transport write ended as ok says
SendWrote(e, ok) ==
    /\ e.op = "send_clipboard"
    /\ \E i \in WritesOf(e, e.conn, "clipboard") : e.io[i].ok = ok

\* C21: send_clipboard on a connection that is not Ready (its handshake is
\* not finished, or it is no longer in the live set) returns False, writes
\* nothing to any socket and leaves every counter, timestamp and health flag
\* as it was.
C21_SendOnNotReadyChangesNothing ==
    [][(/\ ev'.op = "send_clipboard"
        /\ \/ ev'.conn \notin connections
           \/ ~connection_state[ev'.conn].key_exchanged)
       => /\ ev'.ret = FALSE
          /\ ~ev'.raised
          /\ ev'.io = <<>>
          /\ connection_state' = connection_state
          /\ stats' = stats
          /\ connections' = connections]_vars

\* C21: send_clipboard has returned False for a socket whose handshake was
\* still going on, with its transport open
C21_Witness ==
    /\ ev.op = "send_clipboard"
    /\ ev.conn \in connections
    /\ ~connection_state[ev.conn].key_exchanged
    /\ sock[ev.conn] = "open"
    /\ ev.ret = FALSE

\* C22: when the transport write of send_clipboard fails on a Ready
\* connection, send_clipboard returns False without raising, the connection's
\* connection_healthy is False, the aggregate error counter has grown by
\* exactly one, exactly one error_report of type send_failed has been
\* attempted on that socket, and messages_sent (of the connection and the
\* aggregate) and last_activity are as they were.
C22_FailedWriteIsReportedNotRaised ==
    [][(/\ SendWrote(ev', FALSE)
        /\ ev'.conn \in connections
        /\ connection_state[ev'.conn].key_exchanged)
       => LET c == ev'.conn IN
          /\ ev'.ret = FALSE
          /\ ~ev'.raised
          /\ ~connection_state'[c].connection_healthy
          /\ stats'.errors = stats.errors + 1
          /\ Cardinality(WritesOf(ev', c, "error_report")) = 1
          /\ \A i \in WritesOf(ev', c, "error_report") : ev'.io[i].detail = "send_failed"
          /\ Cardinality(WritesOf(ev', c, "clipboard")) = 1
          /\ connection_state'[c].messages_sent = connection_state[c].messages_sent
          /\ connection_state'[c].last_activity = connection_state[c].last_activity
          /\ stats'.messages_sent = stats.messages_sent]_vars

\* C22: a send on a Ready connection that had been healthy and active before
\* the current time has failed
C22_Witness ==
    /\ SendWrote(ev, FALSE)
    /\ ev.conn \in connections
    /\ connection_state[ev.conn].key_exchanged
    /\ ~connection_state[ev.conn].connection_healthy
    /\ connection_state[ev.conn].last_activity < now
    /\ stats.errors > 0

\* C23: a send_clipboard on a Ready connection whose write succeeds writes
\* exactly one frame (the encrypted clipboard item, to that socket), returns
\* True, adds exactly one to the connection's messages_sent and to the
\* aggregate messages_sent, sets last_activity to the current time, and
\* leaves last_pong, connection_healthy, messages_received and the error
\* counter as they were.
C23_SuccessfulSendCountsOnce ==
    [][(/\ SendWrote(ev', TRUE)
        /\ ev'.conn \in connections
        /\ connection_state[ev'.conn].key_exchanged)
       => LET c == ev'.conn
              old == connection_state[c]
              new == connection_state'[c] IN
          /\ ev'.ret = TRUE
          /\ ~ev'.raised
          /\ Len(ev'.io) = 1
          /\ ev'.io[1].to = c /\ ev'.io[1].kind = "clipboard"
          /\ ev'.io[1].detail = ev'.frame.content
          /\ new.messages_sent = old.messages_sent + 1
          /\ stats'.messages_sent = stats.messages_sent + 1
          /\ new.last_activity = now
          /\ new.last_pong = old.last_pong
          /\ new.connection_healthy = old.connection_healthy
          /\ new.messages_received = old.messages_received
          /\ stats'.errors = stats.errors
          /\ stats'.messages_received = stats.messages_received
          /\ \A d \in Conns \ {c} : connection_state'[d] = connection_state[d]]_vars

\* C23: a send has succeeded on a connection accepted earlier than the
\* current time, whose last pong is older than the send
C23_Witness ==
    /\ SendWrote(ev, TRUE)
    /\ ev.ret = TRUE
    /\ connection_state[ev.conn].messages_sent = 1
    /\ connection_state[ev.conn].last_activity = now
    /\ connection_state[ev.conn].last_pong < now

\* the number of the step's clipboard writes that ended as ok says
ClipboardWrites(e, ok) ==
    Cardinality({i \in 1..Len(e.io) : e.io[i].kind = "clipboard" /\ e.io[i].ok = ok})

\* C24: broadcast_clipboard attempts send_clipboard exactly once for every
\* connection of the live set as it was when the broadcast started (one
\* write attempt to every Ready connection of that set, none to any other
\* socket), goes on after a send that fails, and returns exactly the number
\* of sends that succeeded, which is the growth of the aggregate
\* messages_sent.
C24_BroadcastTriesEverySnapshotConnection ==
    [][(ev'.op = "broadcast")
       => /\ \A c \in connections :
               Cardinality(WritesOf(ev', c, "clipboard"))
                 = IF connection_state[c].key_exchanged THEN 1 ELSE 0
          /\ \A c \in Conns \ connections : WritesOf(ev', c, "clipboard") = {}
          /\ ev'.ret = ClipboardWrites(ev', TRUE)
          /\ ev'.ret = stats'.messages_sent - stats.messages_sent
          /\ stats'.errors - stats.errors = ClipboardWrites(ev', FALSE)]_vars

\* C24: a broadcast over two Ready connections has returned 1, the send to
\* one of them having failed
C24_Witness ==
    /\ ev.op = "broadcast"
    /\ ev.ret = 1
    /\ ClipboardWrites(ev, TRUE) = 1
    /\ ClipboardWrites(ev, FALSE) = 1


\* C28: a connection_status frame is written to a socket exactly when its
\* handler leaves the handshake for the message loop, which happens at most
\* once in the life of a connection: one frame then, written after the key
\* is installed, and no frame in any other step, so none for a handshake
\* that fails; no inbound frame of the connection is dispatched before its
\* handler is in the message loop.
C28_StatusOncePerSuccessfulHandshake ==
    [][\A c \in Conns :
         /\ Cardinality(WritesOf(ev', c, "connection_status"))
              = IF handler[c] # "loop" /\ handler'[c] = "loop" THEN 1 ELSE 0
         /\ \A i \in WritesOf(ev', c, "connection_status") :
               /\ ev'.io[i].ok
               /\ ev'.io[i].detail = "connected"
               /\ connection_state'[c].key_exchanged
               /\ \A j \in 1..Len(ev'.io) :
                     (ev'.io[j].to = c /\ ev'.io[j].kind = "key_exchange_ack") => j < i
         /\ handler[c] = "loop" => handler'[c] \in {"loop", "done"}
         /\ handler[c] = "done" => handler'[c] = "done"
         /\ (ev'.op = "message" /\ ev'.conn = c) => handler[c] = "loop"]_vars

\* C28: the key exchange of a connection has just ended well, its status
\* frame written after the ack, while the handshake of another connection
\* has failed
C28_Witness ==
    /\ ev.op = "key_exchange_ack"
    /\ handler[ev.conn] = "loop"
    /\ Cardinality(WritesOf(ev, ev.conn, "connection_status")) = 1
    /\ \E d \in Conns \ {ev.conn} :
          handler[d] = "done" /\ ~connection_state[d].key_exchanged


\* a text is one Base64 group: padded to a multiple of four characters, all
\* of them of the alphabet, '=' only at its end
IsBase64Group(g) ==
    /\ g # <<>>
    /\ Len(g) % 4 = 0
    /\ \A i \in 1..Len(g) :
          \/ B64Value(g[i]) < 64
          \/ g[i] = PAD /\ i >= Len(g) - 1 /\ (i = Len(g) \/ g[Len(g)] = PAD)

\* C29: for every text and every 32-byte key, decrypt_from_transmission of
\* what encrypt_for_transmission made of the text, under the same key,
\* returns exactly the text; and what encrypt_for_transmission returns is
\* two non-empty Base64 groups with exactly one '|' between them.
C29_RoundTripAndFrameFormat ==
    /\ ev.op = "encrypt_for_transmission" =>
          /\ ev.error = "none"
          /\ Cardinality(Pipes(ev.message)) = 1
          /\ IsBase64Group(SplitFirst(ev.message)[1])
          /\ IsBase64Group(SplitFirst(ev.message)[2])
    /\ (ev.op = "decrypt_from_transmission" /\ ev.tamper = "none" /\ ev.dkey = ev.key) =>
          /\ ev.error = "none"
          /\ ev.text = ev.data

\* C29: a text of three characters, one of them '|' and one of two bytes,
\* has come back from decrypt_from_transmission as it was sent
C29_Witness ==
    /\ ev.op = "decrypt_from_transmission"
    /\ ev.tamper = "none"
    /\ ev.dkey = ev.key
    /\ ev.data = <<233, PIPE, 97>>
    /\ ev.text = ev.data
    /\ ev.decrypted

\* the part of a text before its first '|' decodes to bytes that are not an IV
DecodesToWrongIV(m) ==
    /\ Pipes(m) # {}
    /\ SplitFirst(m)[1] # <<>>
    /\ SplitFirst(m)[2] # <<>>
    /\ b64decode(add_padding(SplitFirst(m)[1])).error = "none"
    /\ Len(b64decode(add_padding(SplitFirst(m)[1])).bytes) # AES_IV_SIZE

\* C30: decrypt_from_transmission splits its input at the first '|' only
\* and fails with InvalidMessageFormatError, without calling decrypt and
\* without returning a text, when the input has no '|', when the part
\* before or the part after the first '|' is empty, or when the first part
\* decodes to an IV that is not exactly 12 bytes.
C30_BadFormatIsInvalidMessageFormat ==
    (/\ ev.op = "decrypt_from_transmission"
     /\ \/ Pipes(ev.message) = {}
        \/ SplitFirst(ev.message)[1] = <<>>
        \/ SplitFirst(ev.message)[2] = <<>>
        \/ DecodesToWrongIV(ev.message))
    => /\ ev.error = InvalidMessageFormatError
       /\ ~ev.decrypted
       /\ ev.text = <<>>


\* the step recorded in e is a tick of the probe (of the classifier) in
\* which an error was raised and logged by the task's except clause
ProbeErred(e) ==
    e.op = "ping_closed" /\ \E i \in 1..Len(e.log) : e.log[i].level = "error"

ClassifierErred(e) ==
    e.op = "health_tick" /\ \E i \in 1..Len(e.log) : e.log[i].level = "error"

\* C25: while the server runs, an error raised inside a tick of the probe
\* or of the classifier does not end that monitor: its task is in the
\* back-off sleep of its except clause, the other monitor's task is where
\* it was; no monitor task ends while the server runs; and a monitor in its
\* back-off leaves it only by a new tick over the connections, which comes
\* unless the server is stopped first.
C25_MonitorSurvivesItsErrors ==
    /\ [][/\ (running /\ ProbeErred(ev')) =>
               /\ ping_task'.pc = "backoff"
               /\ health_check_task' = health_check_task
               /\ running'
          /\ (running /\ ClassifierErred(ev')) =>
               /\ health_check_task'.pc = "backoff"
               /\ ping_task' = ping_task
               /\ running'
          /\ running' =>
               /\ ping_task'.pc = "done" => ping_task.pc = "done"
               /\ health_check_task'.pc = "done" => health_check_task.pc = "done"
          /\ (running' /\ ping_task.pc = "backoff" /\ ping_task'.pc # "backoff") =>
               ev'.op \in {"ping_tick", "ping_suspend"}
          /\ (running' /\ health_check_task.pc = "backoff"
                /\ health_check_task'.pc # "backoff") => ev'.op = "health_tick"]_vars
    /\ (running /\ ping_task.pc = "backoff") ~> (~running \/ ping_task.pc # "backoff")
    /\ (running /\ health_check_task.pc = "backoff")
          ~> (~running \/ health_check_task.pc = "sleep")

\* C25: the probe's removal of a dead connection has just raised KeyError
\* while the classifier was in the back-off of an error of its own; both
\* tasks are alive
C25_Witness ==
    /\ running
    /\ ProbeErred(ev)
    /\ ping_task.pc = "backoff"
    /\ health_check_task.pc = "backoff"

\* start() has reached its finally clause
Stopped == ~running /\ ping_task.pc # "new"

\* C26: after the server is stopped both monitor tasks end, wherever they
\* were suspended (in the sleep, in a ping, in the close of a socket, in the
\* back-off sleep); and after the stop no step writes a ping, no step of a
\* monitor removes a connection, closes a socket or changes a connection's
\* state, and a monitor task moves only to its end.
C26_StopEndsBothMonitors ==
    /\ [][Stopped =>
            /\ \A i \in 1..Len(ev'.io) : ev'.io[i].kind # "ping"
            /\ ev'.op \notin {"ping_tick", "ping_suspend", "ping_closed", "health_tick"}
            /\ (ping_task' # ping_task \/ health_check_task' # health_check_task) =>
                  /\ connections' = connections
                  /\ connection_state' = connection_state
                  /\ sock' = sock
                  /\ stats' = stats
            /\ ping_task' # ping_task => ping_task'.pc = "done"
            /\ health_check_task' # health_check_task => health_check_task'.pc = "done"
            /\ ~running']_vars
    /\ Stopped ~> (ping_task.pc = "done" /\ health_check_task.pc = "done")

\* C26: both monitor tasks have ended after a stop that came while the
\* probe was removing a dead connection: its socket is closed and it is
\* still in the live set, its handler not yet over
C26_Witness ==
    /\ Stopped
    /\ ping_task.pc = "done"
    /\ health_check_task.pc = "done"
    /\ \E c \in connections : sock[c] = "closed" /\ handler[c] = "loop"


\* C27: every notification of a local change by the clipboard monitor's
\* thread, made while the server runs, hands exactly one broadcast of that
\* content to the main event loop by run_coroutine_threadsafe and touches
\* no connection state, no counter and no socket itself; the event loop runs
\* the broadcasts handed to it in their order, each once; no broadcast runs
\* that was not handed over; and the n-th notification is followed by the
\* n-th broadcast.
C27_LocalChangeBroadcastOnce ==
    /\ [][/\ ev'.op = "on_clipboard_changed" =>
               /\ ev'.calls = <<HandOff("run_coroutine_threadsafe", "main", ev'.frame.content)>>
               /\ loop_calls'.queue = loop_calls.queue \o ev'.calls
               /\ loop_calls'.handed = loop_calls.handed + 1
               /\ loop_calls'.done = loop_calls.done
               /\ ev'.io = <<>>
               /\ connections' = connections
               /\ connection_state' = connection_state
               /\ stats' = stats
               /\ sock' = sock
          /\ ev'.op = "broadcast" =>
               /\ loop_calls.queue # <<>>
               /\ ev'.frame.content = Head(loop_calls.queue).content
               /\ loop_calls'.queue = Tail(loop_calls.queue)
               /\ loop_calls'.done = loop_calls.done + 1
               /\ loop_calls'.handed = loop_calls.handed
          /\ loop_calls' # loop_calls => ev'.op \in {"on_clipboard_changed", "broadcast"}
          /\ loop_calls'.handed = loop_calls'.done + Len(loop_calls'.queue)]_vars
    /\ \A n \in 1..MaxHandOffs : (loop_calls.handed >= n) ~> (loop_calls.done >= n)

\* C27: the third notification's broadcast has run, and has written the
\* content to a connection
C27_Witness ==
    /\ ev.op = "broadcast"
    /\ loop_calls.done = MaxHandOffs
    /\ loop_calls.queue = <<>>
    /\ ClipboardWrites(ev, TRUE) >= 1

\* the clipboard frames among the writes of step record e
ClipboardFramesOf(e) == {i \in 1..Len(e.io) : e.io[i].kind = "clipboard"}

\* C31: every envelope carried in a frame that send_clipboard writes, on its
\* own or within a broadcast, has the content passed to that call and a hash
\* equal to the SHA-256 (64 lowercase hex digits) of that very content,
\* whatever was sent before.
C31_EnvelopeHashIsOfThisContent ==
    [][ev'.op \in {"send_clipboard", "broadcast"} =>
         \A i \in ClipboardFramesOf(ev') :
            LET e == ev'.io[i].envelope IN
            /\ e.content = TextOf(ev'.frame.content)
            /\ e.hash = hex(sha256(utf8_encode(TextOf(ev'.frame.content))))
            /\ Len(e.hash) = 2 * DIGEST_SIZE]_vars

\* C31 witness: a broadcast of "b" has written its frame to a connection
\* that was sent a frame before, and the hash is not the one of "a"
C31_Witness ==
    /\ ev.op = "broadcast"
    /\ ev.frame.content = "b"
    /\ \E i \in ClipboardFramesOf(ev) :
          /\ ev.io[i].ok
          /\ connection_state[ev.io[i].to].messages_sent >= 2
          /\ ev.io[i].envelope.hash # calculate_hash(TextOf("a"))
          /\ ev.io[i].envelope.hash = calculate_hash(TextOf("b"))

\* C32: in every reachable state each connection of the live set holds a
\* cipher context exactly when it is Ready: one that awaits its handshake
\* holds no key and no context, a Ready one holds a context with a 32-byte
\* key, and no two connections of the live set hold the same context object.
C32_CipherContextIffReady ==
    \A c \in connections :
       LET st == connection_state[c] IN
       /\ (st.encryption # None) <=> st.key_exchanged
       /\ (st.manager # 0) <=> st.key_exchanged
       /\ st.key_exchanged => st.encryption.len = AES_KEY_SIZE
       /\ handler[c] = "handshake" => (st.encryption = None /\ st.manager = 0)
       /\ \A d \in connections \ {c} :
             st.manager # 0 => st.manager # connection_state[d].manager

\* C32 witness: two Ready connections of the live set hold the pre-shared
\* key, each in a context of its own
C32_Witness ==
    /\ connections = {1, 2}
    /\ connection_state[1].key_exchanged /\ connection_state[2].key_exchanged
    /\ connection_state[1].encryption = PSK /\ connection_state[2].encryption = PSK
    /\ connection_state[1].manager # connection_state[2].manager

\* C33: for every item e that create_text_item makes, from_json(to_json(e))
\* raises nothing and gives an item with the same content, content type
\* (TEXT), hash and source device id as e, and the same id, timestamp, ttl
\* and synced flag.
C33_JsonRoundTrip ==
    ev.op = "from_json" =>
       /\ ev.error = "none"
       /\ ev.parsed.content = ev.item.content
       /\ ev.parsed.contentType = "TEXT"
       /\ ev.item.contentType = "TEXT"
       /\ ev.parsed.hash = ev.item.hash
       /\ ev.parsed.sourceDeviceId = ev.item.sourceDeviceId
       /\ ev.parsed.id = ev.item.id
       /\ ev.parsed.timestamp = ev.item.timestamp
       /\ ev.parsed.ttl = ev.item.ttl
       /\ ev.parsed.synced = ev.item.synced
       /\ ev.item.content = ev.content

\* C33 witness: an item without a source device whose content holds a
\* quote, a backslash and a character that is not ASCII has gone through
\* to_json and from_json
C33_Witness ==
    /\ ev.op = "from_json"
    /\ ev.content = <<34, 92, 233>>
    /\ ev.source_device_id = NoneStr
    /\ ev.parsed.content = <<34, 92, 233>>
    /\ ev.parsed.sourceDeviceId = NoneStr
    /\ ev.json[2].text = <<34, 92, 34, 92, 92, 92, 117, 48, 48, 101, 57, 34>>

\* C34: the clipboard monitor never reports as a local change a text that
\* a peer sent: whenever its thread calls on_change, the text it read from
\* the clipboard was copied on this machine, so no broadcast of a received
\* content is handed to the event loop.
C34_ReceivedContentNotReported ==
    [][ev'.op = "on_clipboard_changed" => clipboard_monitor.current.origin = "local"]_vars

\* C35: when the probe's task resumes from the close of a socket it
\* declared dead, it does not fail, whether or not the socket's handler has
\* taken the socket out of the live set meanwhile: it logs no error, removes
\* at most that socket, and once its removal loop is over every connection
\* of the tick's dead list is out of the live set.
C35_ProbeSurvivesHandlerRemoval ==
    [][ev'.op = "ping_closed" =>
          /\ \A i \in 1..Len(ev'.log) : ev'.log[i].level # "error"
          /\ connections \ connections' \subseteq {Head(ping_task.dead)}
          /\ ping_task'.pc # "closing" =>
                \A c \in Range(ping_task.dead) : c \notin connections']_vars

\* C36: in RSA mode a clipboard frame is written to a connection only after
\* its key_exchange_ack frame with status ok has been written, that is, only
\* once its handler has entered the message loop; so none is written
\* while the write of the ack is suspended, and none to a connection whose
\* handshake then ends in failure.
C36_NoClipboardBeforeAck ==
    [][\A i \in 1..Len(ev'.io) :
          (ev'.io[i].kind = "clipboard" /\ ev'.io[i].ok)
             => handler[ev'.io[i].to] = "loop"]_vars

\* the sockets the server has accepted so far
Accepted == {c \in Conns : handler[c] # "idle"}

\* C37: at every suspension point active_connections is the size of the
\* live set, total_connections is the number of accepts so far, and
\* total_connections is not smaller than active_connections.
C37_ActiveCountsLiveSet ==
    /\ stats.active_connections = Cardinality(connections)
    /\ stats.total_connections = Cardinality(Accepted)
    /\ stats.total_connections >= stats.active_connections

\* C37 witness: every peer has connected, one handler has exited, a
\* broadcast has reached a peer, and the probe has just evicted a connection
C37_Witness ==
    /\ ev.op = "ping_closed"
    /\ \E i \in 1..Len(ev.log) : ev.log[i].msg = "removed_dead"
    /\ stats.total_connections = NumConns
    /\ stats.messages_sent > 0
    /\ \E c \in Conns : handler[c] = "done" /\ c # ev.conn
    /\ stats.active_connections < stats.total_connections

\* the connections a step's writes reached with a clipboard frame
SentTo(e) == {e.io[i].to : i \in {j \in 1..Len(e.io) : e.io[j].kind = "clipboard" /\ e.io[j].ok}}

\* the connections a probe tick found stale
FoundStale(e) ==
    IF e.op # "ping_tick" THEN {}
    ELSE {e.log[i].conn : i \in {j \in 1..Len(e.log) : e.log[j].msg = "stale"}}

\* C38: for every connection in the live set lastPong is not later than
\* lastActivity.  lastPong is written only together with lastActivity; a
\* successful sendClipboard sets lastActivity to the current time and
\* leaves lastPong; lastActivity never goes back; and the probe finds a
\* connection stale only when its lastActivity is more than 90 s old.  So a
\* connection the server sends to at least every 90 s is never found stale
\* by the probe, even if its peer sends nothing.
C38_PongNotLaterThanActivity ==
    [][/\ \A c \in connections' :
             connection_state'[c].last_pong <= connection_state'[c].last_activity
       /\ \A c \in Conns :
             connection_state'[c].last_pong # connection_state[c].last_pong
                => connection_state'[c].last_activity = connection_state'[c].last_pong
       /\ \A c \in SentTo(ev') :
             /\ connection_state'[c].last_activity = now
             /\ connection_state'[c].last_pong = connection_state[c].last_pong
       /\ \A c \in connections \cap connections' :
             connection_state'[c].last_activity >= connection_state[c].last_activity
       /\ \A c \in FoundStale(ev') :
             now - connection_state[c].last_activity > PONG_TIMEOUT]_vars

\* C38 witness: a probe tick has just run over a live connection whose peer
\* never sent a message, whose lastPong is more than 90 s old and to which
\* the server sent less than 90 s ago: the probe pinged it and did not put
\* it on its dead list.
C38_Witness ==
    /\ ev.op = "ping_tick"
    /\ \E c \in connections :
          /\ connection_state[c].messages_received = 0
          /\ connection_state[c].messages_sent > 0
          /\ now - connection_state[c].last_pong > PONG_TIMEOUT
          /\ now - connection_state[c].last_activity <= PONG_TIMEOUT
          /\ connection_state[c].last_pong < connection_state[c].last_activity
          /\ sock[c] = "open"
          /\ \A i \in 1..Len(ping_task.dead) : ping_task.dead[i] # c
          /\ \E i \in 1..Len(ev.io) : ev.io[i].kind = "ping" /\ ev.io[i].to = c

\* connection c as the classifier leaves it when both signals are stale at
\* time t: flagged unhealthy, lastPong older than 90 s and lastActivity
\* older than 120 s
ClassifiedStale(st, t) ==
    ~st.connection_healthy /\ pong_stale(st, t) /\ activity_stale(st, t)

\* C39: a connection the classifier has flagged unhealthy because both
\* signals are stale, and that has had no inbound frame and no successful
\* send since, is evicted by the next probe tick: the tick that follows the
\* classifier finds it stale, and when a tick's removal loop is over no
\* such connection is left in the live set.
C39_ClassifiedStaleIsEvicted ==
    [][/\ (ev.op = "health_tick" /\ ev'.op = "ping_tick")
             => \A c \in connections :
                   ClassifiedStale(connection_state[c], now) => c \in FoundStale(ev')
       /\ (ev'.op \in {"ping_tick", "ping_closed"} /\ ping_task'.pc # "closing")
             => \A c \in connections' :
                   ~ClassifiedStale(connection_state'[c], now')]_vars

\* C40: once set_key(k) or generate_key() has returned on a manager that
\* held a key, whether the manager keeps its key itself or was built on a
\* KeyManager, a later encrypt seals under the key just set (the frame opens
\* under it and, when the key is another one, not under the key held
\* before), and a later decrypt opens what was sealed under the key just set.
C40_KeyChangeTakesEffect ==
    /\ (ev.changes > 0 /\ ev.op = "encrypt") =>
          /\ ev.error = "none"
          /\ decrypt(ev.held, ev.iv, ev.encrypted) = [error |-> "none", text |-> ev.data]
          /\ ev.before # ev.held =>
                decrypt(ev.before, ev.iv, ev.encrypted).error = DecryptionError
    /\ (ev.changes > 0 /\ ev.op = "decrypt") =>
          /\ ev.error = "none"
          /\ ev.text = ev.data
====
